---- MODULE Spec2Model ----
(***************************************************************************)
(* University Records Management System (server.js + the SQL migration).   *)
(* The Express route handlers are modelled as actions over the three       *)
(* tables students, courses and enrollments; the Record Store is modelled  *)
(* by the constraints the migration declares (primary keys from BIGSERIAL, *)
(* UNIQUE(student_id, course_id, semester), ON DELETE CASCADE foreign      *)
(* keys, row-level policies auth.uid() = user_id).                         *)
(*                                                                         *)
(* Text values are sequences of one-character strings, so that ILIKE can   *)
(* be computed.  JavaScript values that reach a handler from the request   *)
(* are tagged records (Undef, Null, Str(s), Num(n)), so that truthiness    *)
(* tests such as !name and grade !== undefined mean what they mean in the  *)
(* source.                                                                 *)
(*                                                                         *)
(* A handler is one action: it takes a request up when the server is idle, *)
(* records the request (req), the response (resp) and the tables as it     *)
(* found them (before); Deliver ends the request.  Spec runs the mutating  *)
(* routes from the empty store; SpecList runs the three listings on stores *)
(* of up to MaxListRows rows per table; SpecDash runs the dashboard and    *)
(* SpecRead the distinct-value listings and the exports; SpecSeed runs     *)
(* seed at its full size, clear, signup and login with the errors of the   *)
(* Record Store and of the Identity Provider; SpecRace interleaves an      *)
(* update and a delete of a student at their awaits; SpecView runs the     *)
(* list view of the students in the browser (script.js) against the        *)
(* server's handlers.                                                      *)
(***************************************************************************)
EXTENDS Integers, Sequences, FiniteSets, TLC

VARIABLES students, courses, enrollments, seq, req, resp, before, view

vars == <<students, courses, enrollments, seq, req, resp, before, view>>

(***************************************************************************)
(* Bounds of the model.                                                    *)
(***************************************************************************)
MaxStudentId == 1      \* the last id the students sequence hands out
MaxCourseId == 1       \* the last id the courses sequence hands out
MaxEnrollmentId == 2   \* the last id the enrollments sequence hands out

(***************************************************************************)
(* JavaScript values.                                                      *)
(***************************************************************************)
Undef == [k |-> "undefined"]
Null == [k |-> "null"]
Str(s) == [k |-> "string", s |-> s]
Num(n) == [k |-> "number", n |-> n]

\* !v in JavaScript
Falsy(v) == v = Undef \/ v = Null \/ v = Str(<<>>) \/ v = Num(0)

\* v || d
OrElse(v, d) == IF Falsy(v) THEN d ELSE v

(***************************************************************************)
(* Tenants, bearer tokens and the Identity Provider.                       *)
(***************************************************************************)
Users == {"u1", "u2"}

\* Authorization header as a sequence of space-separated words; <<>> is a
\* request without the header.
Headers ==
    { <<>>, <<"Basic", "t1">>, <<"Bearer", "t1">>, <<"Bearer", "t2">>, <<"Bearer", "expired">> }

\* userSupabase.auth.getUser(token): the provider's verdict on a token
GetUser(token) ==
    CASE token = "t1" -> [error |-> FALSE, user |-> "u1"]
      [] token = "t2" -> [error |-> FALSE, user |-> "u2"]
      [] OTHER -> [error |-> TRUE, user |-> "none"]

Err(status, msg) == [status |-> status, error |-> msg]

\* the middleware without the provider's verdict: any Bearer token passes
requireAuthUnverified(h) ==
    IF h = <<>> \/ Len(h) < 2 \/ h[1] # "Bearer"
    THEN [ok |-> FALSE, resp |-> Err(401, "Not authenticated. Please log in.")]
    ELSE [ok |-> TRUE, user |-> GetUser(h[2]).user]

\* requireAuth: either a 401 response or the resolved user
requireAuth(h) ==
    IF h = <<>> \/ Len(h) < 2 \/ h[1] # "Bearer"
    THEN [ok |-> FALSE, resp |-> Err(401, "Not authenticated. Please log in.")]
    ELSE LET r == GetUser(h[2]) IN
         IF r.error \/ r.user = "none"
         THEN [ok |-> FALSE, resp |-> Err(401, "Invalid or expired token.")]
         ELSE [ok |-> TRUE, user |-> r.user]

(***************************************************************************)
(* Text.                                                                   *)
(***************************************************************************)
Lower(c) ==
    CASE c = "A" -> "a"
      [] c = "B" -> "b"
      [] OTHER -> c

LowerSeq(s) == [i \in 1..Len(s) |-> Lower(s[i])]

\* s contains p as a contiguous run
Contains(s, p) ==
    \E i \in 0..(Len(s) - Len(p)) : \A j \in 1..Len(p) : s[i + j] = p[j]

\* column ILIKE '%p%'
ILike(s, p) == Contains(LowerSeq(s), LowerSeq(p))

ANN == <<"a", "n", "n">>
BOB == <<"B", "o", "b">>
MAIL == <<"x", "@", "u">>
CS == <<"C", "S">>
EE == <<"E", "E">>
CS101 == <<"C", "S", "1">>
INTRO == <<"I", "n", "t", "r", "o">>
FALL24 == <<"F", "2", "4">>
SPRING25 == <<"S", "2", "5">>
GRADE_A == <<"A">>
GRADE_F == <<"F">>
ENROLLED == <<"e", "n", "r", "o", "l", "l", "e", "d">>
COMPLETED == <<"c", "o", "m", "p", "l", "e", "t", "e", "d">>

(***************************************************************************)
(* The Record Store.                                                       *)
(***************************************************************************)
store == <<students, courses, enrollments, seq>>

\* the rows of the three tables
Tables ==
    [students |-> students, courses |-> courses, enrollments |-> enrollments, seq |-> seq]

NoTables ==
    [students |-> {}, courses |-> {}, enrollments |-> {},
     seq |-> [students |-> 1, courses |-> 1, enrollments |-> 1]]

\* the list view of the students in the browser, as the page's script sets
\* it up: let stuCurrentPage = 1, stuTotalPages = 1; nobody is logged in,
\* nothing is loaded
InitialView ==
    [header |-> <<>>, page |-> 1, totalPages |-> 1, search |-> <<>>, course |-> <<>>,
     pending |-> "none", shown |-> "loading", failed |-> FALSE, rows |-> {},
     pager |-> [prev |-> FALSE, next |-> FALSE]]

\* BIGSERIAL primary keys: the next value of each table's sequence
Init ==
    /\ students = {}
    /\ courses = {}
    /\ enrollments = {}
    /\ seq = [students |-> 1, courses |-> 1, enrollments |-> 1]
    /\ req = [route |-> "none"]
    /\ resp = [status |-> 0]
    /\ before = NoTables
    /\ view = InitialView

\* .eq('id', Number(id)).eq('user_id', req.user.id).single()
FindStudent(id, uid) == {s \in students : s.id = id /\ s.user_id = uid}
FindCourse(id, uid) == {c \in courses : c.id = id /\ c.user_id = uid}

\* the lookup by id alone, without .eq('user_id', req.user.id)
FindEnrollmentAnyOwner(id, uid) == {e \in enrollments : e.id = id}

\* .eq('id', Number(id)).eq('user_id', req.user.id).single()
FindEnrollment(id, uid) == {e \in enrollments : e.id = id /\ e.user_id = uid}

\* the enrollments table without its UNIQUE constraint
TripleHoldersUnconstrained(sid, cid, sem, self) == {}

\* UNIQUE(student_id, course_id, semester): the rows, other than the row
\* with id self, that already hold the triple
TripleHolders(sid, cid, sem, self) ==
    {e \in enrollments : e.id # self /\ e.student_id = sid /\ e.course_id = cid /\ e.semester = sem}

\* student_id REFERENCES students(id), course_id REFERENCES courses(id)
ForeignKeysHold(sid, cid) ==
    /\ \E s \in students : s.id = sid
    /\ \E c \in courses : c.id = cid

\* the foreign keys without ON DELETE CASCADE taking effect
CascadeNothing(enrs, sids, cids) == enrs

\* ON DELETE CASCADE: the enrollments that survive the removal of the
\* students with ids in sids and of the courses with ids in cids
CascadeSurvivors(enrs, sids, cids) ==
    {e \in enrs : e.student_id \notin sids /\ e.course_id \notin cids}

\* no request is being handled
Idle == req.route = "none"

\* the server takes up the next request; before keeps the tables as the
\* request found them, for as long as the request is being handled
Begin ==
    /\ Idle
    /\ before' = Tables
    /\ UNCHANGED view

\* res.json(...) / res.send(...): the response leaves and the request's scope
\* ends; nothing of it is kept for the next request
Deliver ==
    /\ ~Idle
    /\ req' = [route |-> "none"]
    /\ resp' = [status |-> 0]
    /\ before' = NoTables
    /\ UNCHANGED <<store, view>>

\* the middleware's early return: the handler itself never runs
Reject(route, h, r) ==
    /\ req' = [route |-> route, header |-> h]
    /\ resp' = r
    /\ UNCHANGED store

(***************************************************************************)
(* Student routes.                                                         *)
(***************************************************************************)
StudentBody(n, e, c) == [name |-> n, email |-> e, course |-> c]

\* request bodies: the well-formed ones, and ones in which a required
\* field is absent or empty
ValidStudentBodies == {StudentBody(Str(n), Str(MAIL), Str(CS)) : n \in {ANN, BOB}}

StudentBodies ==
    ValidStudentBodies \cup {StudentBody(Undef, Str(MAIL), Str(CS)),
                            StudentBody(Str(ANN), Str(<<>>), Str(CS)),
                            StudentBody(Str(ANN), Str(MAIL), Undef)}

StudentUpdates ==
    ValidStudentBodies \cup {StudentBody(Str(<<>>), Str(MAIL), Str(CS)),
                            StudentBody(Str(BOB), Undef, Undef)}

\* ids a request may name: every id the sequence has handed out, and the
\* next one, which no row has yet
StudentIdParams == 1..seq.students

\* the validation without the test of email
StudentBodyInvalidNoEmail(b) == Falsy(b.name) \/ Falsy(b.course)

\* if (!name || !email || !course)
StudentBodyInvalid(b) == Falsy(b.name) \/ Falsy(b.email) \/ Falsy(b.course)

\* POST /api/students
PostStudents(h, b) ==
    LET auth == requireAuth(h)
        route == "POST /api/students"
    IN  /\ Begin
        /\ auth.ok
        /\ req' = [route |-> route, header |-> h, user |-> auth.user, body |-> b]
        /\ IF StudentBodyInvalid(b)
           THEN /\ resp' = Err(400, "All fields are required.")
                /\ UNCHANGED store
           ELSE LET row == [id |-> seq.students, name |-> b.name.s, email |-> b.email.s,
                            course |-> b.course.s, user_id |-> auth.user]
                IN  /\ seq.students <= MaxStudentId
                    /\ students' = students \cup {row}
                    /\ seq' = [seq EXCEPT !.students = @ + 1]
                    /\ resp' = [status |-> 201, message |-> "Student added successfully!",
                                student |-> row]
                    /\ UNCHANGED <<courses, enrollments>>

\* PUT /api/students/:id
PutStudent(h, id, b) ==
    LET auth == requireAuth(h)
        route == "PUT /api/students/:id"
    IN  /\ Begin
        /\ auth.ok
        /\ req' = [route |-> route, header |-> h, user |-> auth.user, id |-> id, body |-> b]
        /\ IF StudentBodyInvalid(b)
           THEN /\ resp' = Err(400, "All fields are required.")
                /\ UNCHANGED store
           ELSE IF FindStudent(id, auth.user) = {}
           THEN /\ resp' = Err(404, "Student not found.")
                /\ UNCHANGED store
           ELSE LET old == CHOOSE s \in FindStudent(id, auth.user) : TRUE
                    new == [old EXCEPT !.name = b.name.s, !.email = b.email.s,
                                       !.course = b.course.s]
                IN  /\ students' = (students \ {old}) \cup {new}
                    /\ resp' = [status |-> 200, message |-> "Student updated successfully!",
                                student |-> new]
                    /\ UNCHANGED <<courses, enrollments, seq>>

\* DELETE /api/students/:id
DeleteStudent(h, id) ==
    LET auth == requireAuth(h)
        route == "DELETE /api/students/:id"
    IN  /\ Begin
        /\ auth.ok
        /\ req' = [route |-> route, header |-> h, user |-> auth.user, id |-> id]
        /\ IF FindStudent(id, auth.user) = {}
           THEN /\ resp' = Err(404, "Student not found.")
                /\ UNCHANGED store
           ELSE /\ students' = students \ FindStudent(id, auth.user)
                /\ enrollments' = CascadeSurvivors(enrollments, {id}, {})
                /\ resp' = [status |-> 200, message |-> "Student deleted successfully!"]
                /\ UNCHANGED <<courses, seq>>

(***************************************************************************)
(* Course routes.                                                          *)
(***************************************************************************)
CourseBody(c, n, cr, d) == [code |-> c, name |-> n, credits |-> cr, department |-> d]

ValidCourseBodies == {CourseBody(Str(CS101), Str(INTRO), Num(n), Str(CS)) : n \in {3, 4}}

CourseBodies ==
    {CourseBody(Str(CS101), Str(INTRO), Num(3), Str(CS)),
     CourseBody(Str(<<>>), Str(INTRO), Num(3), Str(CS)),
     CourseBody(Str(CS101), Undef, Num(3), Str(CS)),
     CourseBody(Str(CS101), Str(INTRO), Num(0), Str(CS)),
     CourseBody(Str(CS101), Str(INTRO), Num(3), Undef)}

CourseUpdates == ValidCourseBodies \cup {CourseBody(Str(CS101), Str(INTRO), Undef, Str(CS))}

CourseIdParams == 1..seq.courses

\* if (!code || !name || !credits || !department)
CourseBodyInvalid(b) ==
    Falsy(b.code) \/ Falsy(b.name) \/ Falsy(b.credits) \/ Falsy(b.department)

\* POST /api/courses
PostCourses(h, b) ==
    LET auth == requireAuth(h)
        route == "POST /api/courses"
    IN  /\ Begin
        /\ auth.ok
        /\ req' = [route |-> route, header |-> h, user |-> auth.user, body |-> b]
        /\ IF CourseBodyInvalid(b)
           THEN /\ resp' = Err(400, "All fields are required.")
                /\ UNCHANGED store
           ELSE LET row == [id |-> seq.courses, code |-> b.code.s, name |-> b.name.s,
                            credits |-> b.credits.n, department |-> b.department.s,
                            user_id |-> auth.user]
                IN  /\ seq.courses <= MaxCourseId
                    /\ courses' = courses \cup {row}
                    /\ seq' = [seq EXCEPT !.courses = @ + 1]
                    /\ resp' = [status |-> 201, message |-> "Course added successfully!",
                                course |-> row]
                    /\ UNCHANGED <<students, enrollments>>

\* PUT /api/courses/:id
PutCourse(h, id, b) ==
    LET auth == requireAuth(h)
        route == "PUT /api/courses/:id"
    IN  /\ Begin
        /\ auth.ok
        /\ req' = [route |-> route, header |-> h, user |-> auth.user, id |-> id, body |-> b]
        /\ IF CourseBodyInvalid(b)
           THEN /\ resp' = Err(400, "All fields are required.")
                /\ UNCHANGED store
           ELSE IF FindCourse(id, auth.user) = {}
           THEN /\ resp' = Err(404, "Course not found.")
                /\ UNCHANGED store
           ELSE LET old == CHOOSE c \in FindCourse(id, auth.user) : TRUE
                    new == [old EXCEPT !.code = b.code.s, !.name = b.name.s,
                                       !.credits = b.credits.n,
                                       !.department = b.department.s]
                IN  /\ courses' = (courses \ {old}) \cup {new}
                    /\ resp' = [status |-> 200, message |-> "Course updated successfully!",
                                course |-> new]
                    /\ UNCHANGED <<students, enrollments, seq>>

\* DELETE /api/courses/:id
DeleteCourse(h, id) ==
    LET auth == requireAuth(h)
        route == "DELETE /api/courses/:id"
    IN  /\ Begin
        /\ auth.ok
        /\ req' = [route |-> route, header |-> h, user |-> auth.user, id |-> id]
        /\ IF FindCourse(id, auth.user) = {}
           THEN /\ resp' = Err(404, "Course not found.")
                /\ UNCHANGED store
           ELSE /\ courses' = courses \ FindCourse(id, auth.user)
                /\ enrollments' = CascadeSurvivors(enrollments, {}, {id})
                /\ resp' = [status |-> 200, message |-> "Course deleted successfully!"]
                /\ UNCHANGED <<students, seq>>

(***************************************************************************)
(* Enrollment routes.                                                      *)
(***************************************************************************)
Semesters == {FALL24, SPRING25}

EnrollmentBody(sid, cid, sem, g, st) ==
    [student_id |-> sid, course_id |-> cid, semester |-> sem, grade |-> g, status |-> st]

ValidEnrollmentBodies ==
    {EnrollmentBody(Num(s), Num(c), Str(sem), Undef, Undef) :
        s \in StudentIdParams, c \in CourseIdParams, sem \in Semesters}

EnrollmentBodies ==
    ValidEnrollmentBodies \cup {EnrollmentBody(Undef, Num(1), Str(FALL24), Undef, Undef),
                               EnrollmentBody(Num(1), Num(0), Str(FALL24), Undef, Undef),
                               EnrollmentBody(Num(1), Num(1), Str(<<>>), Undef, Undef)}

EnrollmentPatch(g, st, sem) == [grade |-> g, status |-> st, semester |-> sem]

EnrollmentPatches ==
    {EnrollmentPatch(g, Undef, Undef) : g \in {Null, Str(<<>>), Str(GRADE_A)}}
        \cup {EnrollmentPatch(Undef, Undef, Str(sem)) : sem \in Semesters}

EnrollmentIdParams == 1..seq.enrollments

\* if (!student_id || !course_id || !semester)
EnrollmentBodyInvalid(b) == Falsy(b.student_id) \/ Falsy(b.course_id) \/ Falsy(b.semester)

\* the handler looking for a word the store's message does not contain
MentionsConflict(dberr) == dberr = "conflict"

\* error.message.includes('duplicate') || error.message.includes('unique'):
\* true of the store's unique-violation message ("duplicate key value
\* violates unique constraint ..."), false of its foreign-key message
MentionsDuplicate(dberr) == dberr = "unique_violation"

\* the store's verdict on INSERT INTO enrollments of one row; the unique
\* index is checked when the row is inserted, the foreign keys at the end
\* of the statement
InsertEnrollmentError(row) ==
    IF TripleHolders(row.student_id, row.course_id, row.semester, row.id) # {}
    THEN "unique_violation"
    ELSE IF ~ForeignKeysHold(row.student_id, row.course_id)
    THEN "foreign_key_violation"
    ELSE "none"

\* POST /api/enrollments
PostEnrollments(h, b) ==
    LET auth == requireAuth(h)
        route == "POST /api/enrollments"
    IN  /\ Begin
        /\ auth.ok
        /\ req' = [route |-> route, header |-> h, user |-> auth.user, body |-> b]
        /\ IF EnrollmentBodyInvalid(b)
           THEN /\ resp' = Err(400, "Student, course, and semester are required.")
                /\ UNCHANGED store
           ELSE LET row == [id |-> seq.enrollments, student_id |-> b.student_id.n,
                            course_id |-> b.course_id.n, semester |-> b.semester.s,
                            grade |-> OrElse(b.grade, Null),
                            status |-> OrElse(b.status, Str(ENROLLED)).s,
                            user_id |-> auth.user]
                    dberr == InsertEnrollmentError(row)
                IN  /\ seq.enrollments <= MaxEnrollmentId
                    /\ IF dberr # "none"
                       THEN /\ resp' = IF MentionsDuplicate(dberr)
                                       THEN Err(400, "Student is already enrolled in this course for this semester.")
                                       ELSE Err(500, "Failed to create enrollment.")
                            /\ UNCHANGED store
                       ELSE /\ enrollments' = enrollments \cup {row}
                            /\ seq' = [seq EXCEPT !.enrollments = @ + 1]
                            /\ resp' = [status |-> 201, message |-> "Student enrolled successfully!",
                                        enrollment |-> row]
                            /\ UNCHANGED <<students, courses>>

\* the patch with grade tested like status and semester: if (grade) ...
ApplyPatchTruthy(old, b) ==
    [old EXCEPT !.grade = IF ~Falsy(b.grade) THEN b.grade ELSE @,
                !.status = IF ~Falsy(b.status) THEN b.status.s ELSE @,
                !.semester = IF ~Falsy(b.semester) THEN b.semester.s ELSE @]

\* const updates = {}; if (grade !== undefined) ...; if (status) ...; if (semester) ...
ApplyPatch(old, b) ==
    [old EXCEPT !.grade = IF b.grade # Undef THEN OrElse(b.grade, Null) ELSE @,
                !.status = IF ~Falsy(b.status) THEN b.status.s ELSE @,
                !.semester = IF ~Falsy(b.semester) THEN b.semester.s ELSE @]

\* PUT /api/enrollments/:id
PutEnrollment(h, id, b) ==
    LET auth == requireAuth(h)
        route == "PUT /api/enrollments/:id"
    IN  /\ Begin
        /\ auth.ok
        /\ req' = [route |-> route, header |-> h, user |-> auth.user, id |-> id, body |-> b]
        /\ IF FindEnrollment(id, auth.user) = {}
           THEN /\ resp' = Err(404, "Enrollment not found.")
                /\ UNCHANGED store
           ELSE LET old == CHOOSE e \in FindEnrollment(id, auth.user) : TRUE
                    new == ApplyPatch(old, b)
                IN  IF TripleHolders(new.student_id, new.course_id, new.semester, id) # {}
                    THEN /\ resp' = Err(500, "Failed to update enrollment.")
                         /\ UNCHANGED store
                    ELSE /\ enrollments' = (enrollments \ {old}) \cup {new}
                         \* an update that sets no column may report no row
                         /\ \E d \in (IF b.grade = Undef /\ Falsy(b.status) /\ Falsy(b.semester) THEN {new, Undef} ELSE {new}) :
                               resp' = [status |-> 200,
                                        message |-> "Enrollment updated successfully!",
                                        enrollment |-> d]
                         /\ UNCHANGED <<students, courses, seq>>

\* DELETE /api/enrollments/:id
DeleteEnrollment(h, id) ==
    LET auth == requireAuth(h)
        route == "DELETE /api/enrollments/:id"
    IN  /\ Begin
        /\ auth.ok
        /\ req' = [route |-> route, header |-> h, user |-> auth.user, id |-> id]
        /\ IF FindEnrollment(id, auth.user) = {}
           THEN /\ resp' = Err(404, "Enrollment not found.")
                /\ UNCHANGED store
           ELSE /\ enrollments' = enrollments \ FindEnrollment(id, auth.user)
                /\ resp' = [status |-> 200, message |-> "Enrollment deleted successfully!"]
                /\ UNCHANGED <<students, courses, seq>>

(***************************************************************************)
(* Seed and clear.                                                         *)
(***************************************************************************)
SeedGuard == 10

\* the roster and the catalogue, cut to the model's size
SeedStudentList == <<[name |-> ANN, email |-> MAIL, course |-> CS]>>

SeedCourseList == <<[code |-> CS101, name |-> INTRO, credits |-> 3, department |-> CS]>>

\* the grade list ends with two nulls, as in the source
SeedGrades == <<Str(GRADE_A), Null, Null>>
SeedSemesters == <<FALL24, SPRING25>>
SeedStatuses == <<COMPLETED, COMPLETED, COMPLETED, ENROLLED, ENROLLED>>

Range(f) == {f[i] : i \in DOMAIN f}

\* the draw of a grade from the whole list, whatever the status
SeedGradeChoicesAny(status) == Range(SeedGrades) \cup {Null}

\* status === 'completed' ? grades[random index below length - 2]
\*                        : (Math.random() > 0.7 ? grades[random index] : null)
SeedGradeChoices(status) ==
    IF status = COMPLETED
    THEN {SeedGrades[i] : i \in 1..(Len(SeedGrades) - 2)}
    ELSE Range(SeedGrades) \cup {Null}

\* the outcomes of the random choices of one seed.  One iteration of the
\* inner loop picks the course at position i of the shuffle (an index into
\* insertedCourses) and makes three random draws; a student draws
\* numCourses in 2..4, cut to the length of the shuffle, whose entries are
\* distinct courses
SeedPlans ==
    LET picks ==
            {[course |-> c, semester |-> sem, status |-> st, grade |-> g] :
                c \in 1..Len(SeedCourseList), sem \in Range(SeedSemesters),
                st \in Range(SeedStatuses), g \in Range(SeedGrades) \cup {Null}}
        studentPlans ==
            UNION {
                {p \in [1..n -> picks] :
                    /\ \A i, j \in 1..n : i # j => p[i].course # p[j].course
                    /\ \A i \in 1..n : p[i].grade \in SeedGradeChoices(p[i].status)} :
                n \in {IF k < Len(SeedCourseList) THEN k ELSE Len(SeedCourseList) :
                          k \in 2..4}}
    IN  [1..Len(SeedStudentList) -> studentPlans]

PairKey(c) == <<c.student_id, c.course_id, c.semester>>

\* the inner loop over the shuffle positions of one student, from position i:
\* if (usedPairs.has(pairKey)) continue; usedPairs.add(pairKey); enrollments.push(...)
RECURSIVE SeedEnrollments(_, _)
SeedEnrollments(cands, usedPairs) ==
    IF cands = <<>> THEN <<>>
    ELSE IF PairKey(Head(cands)) \in usedPairs
    THEN SeedEnrollments(Tail(cands), usedPairs)
    ELSE <<Head(cands)>> \o SeedEnrollments(Tail(cands), usedPairs \cup {PairKey(Head(cands))})

\* the outer loop over insertedStudents, from student si: the rows pushed
\* for the student, then the rows of the students after it with the pair
\* keys used so far
RECURSIVE SeedCandidates(_, _, _, _, _)
SeedCandidates(plan, si, usedPairs, firstStudent, firstCourse) ==
    IF si > Len(plan) THEN <<>>
    ELSE LET pushed ==
                 SeedEnrollments(
                     [i \in 1..Len(plan[si]) |->
                         [student_id |-> firstStudent + si - 1,
                          course_id |-> firstCourse + plan[si][i].course - 1,
                          semester |-> plan[si][i].semester,
                          grade |-> plan[si][i].grade,
                          status |-> plan[si][i].status]],
                     usedPairs)
         IN  pushed \o SeedCandidates(plan, si + 1,
                                      usedPairs \cup {PairKey(pushed[i]) : i \in 1..Len(pushed)},
                                      firstStudent, firstCourse)

\* POST /api/seed with the roster and the catalogue it inserts; failing is
\* the step (count, students, courses, enrollments) at which the Record
\* Store answers with an error, "none" when every step succeeds, and cause
\* is that error's message
SeedWith(h, plan, failing, cause, roster, catalogue) ==
    LET auth == requireAuth(h)
        route == "POST /api/seed"
        existingStudents ==
            IF failing = "count" THEN Null
            ELSE Num(Cardinality({s \in students : s.user_id = auth.user}))
        insertedStudents ==
            {[id |-> seq.students + i - 1, name |-> roster[i].name,
              email |-> roster[i].email, course |-> roster[i].course,
              user_id |-> auth.user] : i \in 1..Len(roster)}
        insertedCourses ==
            {[id |-> seq.courses + i - 1, code |-> catalogue[i].code,
              name |-> catalogue[i].name, credits |-> catalogue[i].credits,
              department |-> catalogue[i].department,
              user_id |-> auth.user] : i \in 1..Len(catalogue)}
        insertedEnrollments(rows) ==
            {[id |-> seq.enrollments + i - 1, student_id |-> rows[i].student_id,
              course_id |-> rows[i].course_id, semester |-> rows[i].semester,
              grade |-> rows[i].grade, status |-> rows[i].status,
              user_id |-> auth.user] : i \in 1..Len(rows)}
        \* UNIQUE(student_id, course_id, semester) over the batch and the
        \* rows already stored
        batchUnique(rows) ==
            /\ Cardinality({PairKey(rows[i]) : i \in 1..Len(rows)}) = Len(rows)
            /\ \A i \in 1..Len(rows) :
                   TripleHolders(rows[i].student_id, rows[i].course_id,
                                 rows[i].semester, 0) = {}
    IN  /\ Begin
        /\ auth.ok
        /\ req' = [route |-> route, header |-> h, user |-> auth.user,
                   failing |-> failing, cause |-> cause]
        \* if (existingStudents > 10): a count that failed is null, and
        \* null > 10 is false
        /\ IF existingStudents # Null /\ existingStudents.n > SeedGuard
           THEN /\ resp' = Err(400, "Database already has data. Clear it first or use the existing data.")
                /\ UNCHANGED store
           ELSE IF failing = "students"
           THEN /\ resp' = Err(500, "Failed to seed students: " \o cause)
                /\ UNCHANGED store
           ELSE IF failing = "courses"
           THEN /\ students' = students \cup insertedStudents
                /\ seq' = [seq EXCEPT !.students = @ + Len(roster)]
                /\ resp' = Err(500, "Failed to seed courses: " \o cause)
                /\ UNCHANGED <<courses, enrollments>>
           ELSE \E rows \in {SeedCandidates(plan, 1, {}, seq.students, seq.courses)} :
                /\ students' = students \cup insertedStudents
                /\ courses' = courses \cup insertedCourses
                /\ IF failing = "enrollments" \/ ~batchUnique(rows)
                   THEN /\ seq' = [seq EXCEPT !.students = @ + Len(roster),
                                              !.courses = @ + Len(catalogue)]
                        /\ resp' = Err(500, "Failed to seed enrollments: "
                                            \o (IF failing = "enrollments" THEN cause
                                                ELSE "duplicate key value violates unique constraint"))
                        /\ UNCHANGED enrollments
                   ELSE /\ enrollments' = enrollments \cup insertedEnrollments(rows)
                        /\ seq' = [students |-> seq.students + Len(roster),
                                   courses |-> seq.courses + Len(catalogue),
                                   enrollments |-> seq.enrollments + Len(rows)]
                        /\ resp' = [status |-> 200, message |-> "Database seeded!",
                                    counts |-> [students |-> Cardinality(insertedStudents),
                                                courses |-> Cardinality(insertedCourses),
                                                enrollments |-> Len(rows)]]

\* POST /api/seed when every step of it is answered, with the roster and the
\* catalogue cut to the model's size
Seed(h, plan) ==
    /\ seq.students + Len(SeedStudentList) - 1 <= MaxStudentId
    /\ seq.courses + Len(SeedCourseList) - 1 <= MaxCourseId
    /\ seq.enrollments
         + Len(SeedCandidates(plan, 1, {}, seq.students, seq.courses))
         - 1 <= MaxEnrollmentId
    /\ SeedWith(h, plan, "none", "", SeedStudentList, SeedCourseList)

\* POST /api/clear: delete enrollments, then courses, then students of the
\* caller; the deletes of courses and students cascade.  failed holds the
\* tables whose delete the Record Store answers with an error: the handler
\* does not look at the answers
ClearWith(h, failed) ==
    LET auth == requireAuth(h)
        route == "POST /api/clear"
        ownCourses == IF "courses" \in failed THEN {}
                      ELSE {c \in courses : c.user_id = auth.user}
        ownStudents == IF "students" \in failed THEN {}
                       ELSE {s \in students : s.user_id = auth.user}
        afterFirst == IF "enrollments" \in failed THEN enrollments
                      ELSE {e \in enrollments : e.user_id # auth.user}
    IN  /\ Begin
        /\ auth.ok
        /\ req' = [route |-> route, header |-> h, user |-> auth.user, failed |-> failed]
        /\ enrollments' = CascadeSurvivors(afterFirst,
                                           {s.id : s \in ownStudents},
                                           {c.id : c \in ownCourses})
        /\ courses' = courses \ ownCourses
        /\ students' = students \ ownStudents
        /\ resp' = [status |-> 200, message |-> "All data cleared successfully."]
        /\ UNCHANGED seq

\* POST /api/clear when the Record Store answers every delete
Clear(h) == ClearWith(h, {})

\* every protected route is registered as (path, requireAuth, handler): when
\* requireAuth answers, the handler does not run
Unauthenticated(route, h) ==
    /\ Begin
    /\ ~requireAuth(h).ok
    /\ Reject(route, h, requireAuth(h).resp)

(***************************************************************************)
(* The mutating requests, in any order and from any caller.                *)
(***************************************************************************)
Next ==
    \/ \E h \in Headers, b \in StudentBodies : PostStudents(h, b)
    \/ \E h \in Headers, id \in StudentIdParams, b \in StudentUpdates : PutStudent(h, id, b)
    \/ \E h \in Headers, id \in StudentIdParams : DeleteStudent(h, id)
    \/ \E h \in Headers, b \in CourseBodies : PostCourses(h, b)
    \/ \E h \in Headers, id \in CourseIdParams, b \in CourseUpdates : PutCourse(h, id, b)
    \/ \E h \in Headers, id \in CourseIdParams : DeleteCourse(h, id)
    \/ \E h \in Headers, b \in EnrollmentBodies : PostEnrollments(h, b)
    \/ \E h \in Headers, id \in EnrollmentIdParams, b \in EnrollmentPatches : PutEnrollment(h, id, b)
    \/ \E h \in Headers, id \in EnrollmentIdParams : DeleteEnrollment(h, id)
    \/ \E h \in Headers, plan \in SeedPlans : Seed(h, plan)
    \/ \E h \in Headers : Clear(h)
    \/ \E route \in {"POST /api/students", "PUT /api/students/:id", "DELETE /api/students/:id",
                      "POST /api/courses", "PUT /api/courses/:id", "DELETE /api/courses/:id",
                      "POST /api/enrollments", "PUT /api/enrollments/:id",
                      "DELETE /api/enrollments/:id", "POST /api/seed", "POST /api/clear"},
          h \in Headers : Unauthenticated(route, h)
    \/ Deliver

Spec == Init /\ [][Next]_vars

(***************************************************************************)
(* Listings.  A listing is a query the handler builds and the Record Store *)
(* answers; the handler turns the answer into the response.                *)
(***************************************************************************)
PageSize == 10

MaxPage == 3        \* the largest page number a request asks for
MaxListRows == 12   \* the most rows a table holds when listings are checked

TRUE_TEXT == <<"t", "r", "u", "e">>

\* a query that is not scoped to the caller
AllRows(rows, uid) == rows

\* the rows of a table the caller's query sees: .eq('user_id', req.user.id)
\* in the handler, and the policy USING (auth.uid() = user_id) in the store,
\* which also applies to the rows an embedded table contributes to a join
OwnedRows(rows, uid) == {r \in rows : r.user_id = uid}

\* the rows in descending order of id
RECURSIVE OrderByIdReversed(_)
OrderByIdReversed(S) ==
    IF S = {} THEN <<>>
    ELSE LET m == CHOOSE r \in S : \A o \in S : o.id <= r.id
         IN  <<m>> \o OrderByIdReversed(S \ {m})

\* .order('id', { ascending: true })
RECURSIVE OrderById(_)
OrderById(S) ==
    IF S = {} THEN <<>>
    ELSE LET m == CHOOSE r \in S : \A o \in S : o.id >= r.id
         IN  <<m>> \o OrderById(S \ {m})

\* the rows oldest first where the newest are asked for first
OrderByIdAsc(S) == OrderById(S)

\* .order('id', { ascending: false })
RECURSIVE OrderByIdDesc(_)
OrderByIdDesc(S) ==
    IF S = {} THEN <<>>
    ELSE LET m == CHOOSE r \in S : \A o \in S : o.id <= r.id
         IN  <<m>> \o OrderByIdDesc(S \ {m})

\* the collation of the characters that occur in names and codes
Alphabet ==
    <<"1", "a", "b", "c", "d", "e", "f", "g", "h", "i", "j", "k", "l", "m", "n">>

RECURSIVE TextLess(_, _)
TextLess(a, b) ==
    LET rank(c) == CHOOSE i \in 1..Len(Alphabet) : Alphabet[i] = Lower(c)
    IN  IF b = <<>> THEN FALSE
        ELSE IF a = <<>> THEN TRUE
        ELSE IF rank(Head(a)) # rank(Head(b)) THEN rank(Head(a)) < rank(Head(b))
        ELSE TextLess(Tail(a), Tail(b))

\* .order(column, { ascending: true }) over pairs [k |-> column value,
\* row |-> selected columns]: every sequence in ascending order of k; rows
\* with equal k come in whatever order the store produces them
RECURSIVE OrderAscending(_)
OrderAscending(S) ==
    IF S = {} THEN {<<>>}
    ELSE UNION {{<<m.row>> \o t : t \in OrderAscending(S \ {m})} :
                m \in {x \in S : \A o \in S : ~TextLess(o.k, x.k)}}

Min(a, b) == IF a < b THEN a ELSE b

\* Math.ceil(count / pageSize)
CeilDiv(n, d) == (n + d - 1) \div d

\* .range(offset, offset + pageSize - 1) with { count: 'exact' }: the
\* store's answers to a request for limit rows from position offset of the
\* ordered matching rows.  A start before the first row or beyond the last
\* one is a range the store may refuse; where it does not refuse, it
\* returns the rows it has from that position on.
RangeAnswers(rows, offset, limit) ==
    LET from == IF offset < 0 THEN 0 ELSE offset
        data == SubSeq(rows, from + 1, Min(from + limit, Len(rows)))
        served == [error |-> FALSE, data |-> data, count |-> Len(rows)]
        refused == [error |-> TRUE, data |-> <<>>, count |-> 0]
    IN  IF offset < 0 \/ offset > Len(rows) THEN {refused, served} ELSE {served}

\* Number(page), page = 1 when the parameter is absent
PageNumber(q) == IF q.page = Undef THEN 1 ELSE q.page.n

Pages == {Undef} \cup {Num(p) : p \in -1..MaxPage}

SearchTerms == {Undef, Str(<<>>), Str(<<"B">>), Str(<<"m">>)}

\* res.json({ <key>: data, total: count, page: Number(page), totalPages })
PageResponse(key, answer, q) ==
    [status |-> 200, total |-> answer.count, page |-> PageNumber(q),
     totalPages |-> CeilDiv(answer.count, PageSize)] @@ (key :> answer.data)

\* GET /api/students: the rows the filters keep
MatchingStudents(uid, q) ==
    {r \in OwnedRows(students, uid) :
        /\ ~Falsy(q.search) => ILike(r.name, q.search.s) \/ ILike(r.email, q.search.s)
        /\ ~Falsy(q.course) => r.course = q.course.s}

StudentQuery(se, c, p, a) == [search |-> se, course |-> c, page |-> p, all |-> a]

StudentQueries ==
    {StudentQuery(se, c, p, Undef) : se \in SearchTerms, c \in {Undef, Str(CS)}, p \in Pages}
        \cup {StudentQuery(Str(<<"B">>), Undef, Undef, Str(TRUE_TEXT))}

\* the responses GET /api/students can give to query q of user uid
StudentsResponses(uid, q) ==
    IF q.all = Str(TRUE_TEXT)
    THEN {[status |-> 200, students |-> d] :
            d \in OrderAscending({[k |-> r.name,
                                   row |-> [id |-> r.id, name |-> r.name, email |-> r.email]] :
                                  r \in OwnedRows(students, uid)})}
    ELSE {IF a.error THEN Err(500, "Failed to fetch students.")
          ELSE PageResponse("students", a, q) :
            a \in RangeAnswers(OrderByIdDesc(MatchingStudents(uid, q)),
                               (PageNumber(q) - 1) * PageSize, PageSize)}

GetStudents(h, q) ==
    LET auth == requireAuth(h)
    IN  /\ Begin
        /\ auth.ok
        /\ req' = [route |-> "GET /api/students", header |-> h, user |-> auth.user, query |-> q]
        /\ resp' \in StudentsResponses(auth.user, q)
        /\ UNCHANGED store

\* GET /api/courses
MatchingCourses(uid, q) ==
    {r \in OwnedRows(courses, uid) :
        /\ ~Falsy(q.search) => ILike(r.code, q.search.s) \/ ILike(r.name, q.search.s)
        /\ ~Falsy(q.department) => r.department = q.department.s}

CourseQuery(se, d, p, a) == [search |-> se, department |-> d, page |-> p, all |-> a]

CourseQueries ==
    {CourseQuery(se, d, p, Undef) : se \in SearchTerms, d \in {Undef, Str(EE)}, p \in Pages}
        \cup {CourseQuery(Undef, Str(EE), Num(2), Str(TRUE_TEXT))}

CoursesResponses(uid, q) ==
    IF q.all = Str(TRUE_TEXT)
    THEN {[status |-> 200, courses |-> d] :
            d \in OrderAscending({[k |-> r.code,
                                   row |-> [id |-> r.id, code |-> r.code, name |-> r.name,
                                            credits |-> r.credits]] :
                                  r \in OwnedRows(courses, uid)})}
    ELSE {IF a.error THEN Err(500, "Failed to fetch courses.")
          ELSE PageResponse("courses", a, q) :
            a \in RangeAnswers(OrderByIdDesc(MatchingCourses(uid, q)),
                               (PageNumber(q) - 1) * PageSize, PageSize)}

GetCourses(h, q) ==
    LET auth == requireAuth(h)
    IN  /\ Begin
        /\ auth.ok
        /\ req' = [route |-> "GET /api/courses", header |-> h, user |-> auth.user, query |-> q]
        /\ resp' \in CoursesResponses(auth.user, q)
        /\ UNCHANGED store

\* GET /api/enrollments: students!inner (...), courses!inner (...): an
\* enrollment is joined with the student and the course it references, and
\* is dropped when the caller's query sees no such student or no such course
JoinedEnrollments(uid) ==
    {[e |-> e, s |-> s, c |-> c] :
        e \in OwnedRows(enrollments, uid),
        s \in OwnedRows(students, uid),
        c \in OwnedRows(courses, uid)}

MatchingEnrollments(uid, q) ==
    {j \in JoinedEnrollments(uid) :
        /\ j.s.id = j.e.student_id
        /\ j.c.id = j.e.course_id
        /\ ~Falsy(q.search) =>
              \/ ILike(j.s.name, q.search.s)
              \/ ILike(j.c.code, q.search.s)
              \/ ILike(j.c.name, q.search.s)
        /\ ~Falsy(q.semester) => j.e.semester = q.semester.s
        /\ ~Falsy(q.grade) => j.e.grade = q.grade
        /\ ~Falsy(q.status) => j.e.status = q.status.s}

\* (data || []).map(e => ({ id: e.id, ..., course_credits: e.courses.credits }))
Flatten(j) ==
    [id |-> j.e.id, grade |-> j.e.grade, semester |-> j.e.semester, status |-> j.e.status,
     student_id |-> j.s.id, student_name |-> j.s.name, student_email |-> j.s.email,
     course_id |-> j.c.id, course_code |-> j.c.code, course_name |-> j.c.name,
     course_credits |-> j.c.credits]

EnrollmentQuery(se, sem, g, st, p) ==
    [search |-> se, semester |-> sem, grade |-> g, status |-> st, page |-> p]

EnrollmentQueries ==
    {EnrollmentQuery(se, sem, g, st, p) :
        se \in {Undef, Str(<<"B">>)}, sem \in {Undef, Str(FALL24)},
        g \in {Undef, Str(GRADE_A)}, st \in {Undef, Str(COMPLETED)}, p \in Pages}

EnrollmentsResponses(uid, q) ==
    LET ordered == OrderByIdDesc({Flatten(j) : j \in MatchingEnrollments(uid, q)})
    IN  {IF a.error THEN Err(500, "Failed to fetch enrollments.")
         ELSE PageResponse("enrollments", a, q) :
            a \in RangeAnswers(ordered, (PageNumber(q) - 1) * PageSize, PageSize)}

GetEnrollments(h, q) ==
    LET auth == requireAuth(h)
    IN  /\ Begin
        /\ auth.ok
        /\ req' = [route |-> "GET /api/enrollments", header |-> h, user |-> auth.user, query |-> q]
        /\ resp' \in EnrollmentsResponses(auth.user, q)
        /\ UNCHANGED store

ListRoutes == {"GET /api/students", "GET /api/courses", "GET /api/enrollments"}

(***************************************************************************)
(* The stores on which the listings are checked: n rows in each table,     *)
(* with consecutive ids, every enrollment referencing the student and the  *)
(* course with its own id.  A layout says which rows the second tenant     *)
(* owns (every k-th row of a table; none when k = 0), so that there are    *)
(* stores of one tenant, stores of two, and enrollments of one tenant that *)
(* reference a student or a course of the other.                           *)
(***************************************************************************)
Layouts ==
    {[students |-> 0, courses |-> 0, enrollments |-> 0],
     [students |-> 4, courses |-> 4, enrollments |-> 2],
     [students |-> 4, courses |-> 5, enrollments |-> 3]}

OwnerOf(i, every) == IF every > 0 /\ i % every = 0 THEN "u2" ELSE "u1"

ListLetter(i) == Alphabet[(IF i < 2 THEN 1 ELSE i - 1) + 1]

ListStudent(i, layout) ==
    [id |-> i, name |-> <<ListLetter(i), "n">>,
     email |-> IF i % 3 = 0 THEN <<"b", "@", "u">> ELSE MAIL,
     course |-> IF i % 2 = 0 THEN CS ELSE EE,
     user_id |-> OwnerOf(i, layout.students)]

ListCourse(i, layout) ==
    [id |-> i, code |-> <<ListLetter(i), "1">>,
     name |-> IF i % 3 = 0 THEN <<"B", "i", "o">> ELSE INTRO,
     credits |-> 3,
     department |-> IF i % 2 = 0 THEN CS ELSE EE,
     user_id |-> OwnerOf(i, layout.courses)]

ListEnrollment(i, layout) ==
    [id |-> i, student_id |-> i, course_id |-> i,
     semester |-> IF i % 2 = 1 THEN FALL24 ELSE SPRING25,
     grade |-> IF i % 3 = 0 THEN Null ELSE IF i % 3 = 1 THEN Str(GRADE_A) ELSE Str(GRADE_F),
     status |-> IF i % 3 = 0 THEN ENROLLED ELSE COMPLETED,
     user_id |-> OwnerOf(i, layout.enrollments)]

InitList ==
    \E n \in 0..MaxListRows, layout \in Layouts :
        /\ students = {ListStudent(i, layout) : i \in 1..n}
        /\ courses = {ListCourse(i, layout) : i \in 1..n}
        /\ enrollments = {ListEnrollment(i, layout) : i \in 1..n}
        /\ seq = [students |-> n + 1, courses |-> n + 1, enrollments |-> n + 1]
        /\ req = [route |-> "none"]
        /\ resp = [status |-> 0]
        /\ before = NoTables
        /\ view = InitialView

NextList ==
    \/ \E h \in Headers, q \in StudentQueries : GetStudents(h, q)
    \/ \E h \in Headers, q \in CourseQueries : GetCourses(h, q)
    \/ \E h \in Headers, q \in EnrollmentQueries : GetEnrollments(h, q)
    \/ \E route \in ListRoutes, h \in Headers : Unauthenticated(route, h)
    \/ Deliver

SpecList == InitList /\ [][NextList]_vars

(***************************************************************************)
(* Dashboard.                                                              *)
(***************************************************************************)
MaxDashRows == 3   \* the most enrollments of the first tenant when the dashboard is checked

DROPPED == <<"d", "r", "o", "p", "p", "e", "d">>
CONSTRUCTOR == <<"c", "o", "n", "s", "t", "r", "u", "c", "t", "o", "r">>
\* the em dash of the source, written as one element
DASH == <<"--">>

\* const gradePoints = { 'A+': 4.0, ..., 'F': 0.0 }, in tenths of a point
gradePoints ==
    (<<"A", "+">> :> 40) @@ (<<"A">> :> 40) @@ (<<"A", "-">> :> 37) @@
    (<<"B", "+">> :> 33) @@ (<<"B">> :> 30) @@ (<<"B", "-">> :> 27) @@
    (<<"C", "+">> :> 23) @@ (<<"C">> :> 20) @@ (<<"C", "-">> :> 17) @@
    (<<"D", "+">> :> 13) @@ (<<"D">> :> 10) @@ (<<"D", "-">> :> 7) @@
    (<<"F">> :> 0)

\* names every object literal inherits from Object.prototype (two of them)
InheritedKeys == {CONSTRUCTOR, <<"t", "o", "S", "t", "r", "i", "n", "g">>}

\* obj[key] = (obj[key] || 0) + 1 for each row, key = keyOf[row], obj = {}
\* at first: own keys count up; an inherited member is truthy, and + 1
\* appends "1" to its text
Tally(keyOf) ==
    [key \in {keyOf[r] : r \in DOMAIN keyOf} |->
        LET n == Cardinality({r \in DOMAIN keyOf : keyOf[r] = key})
        IN  IF key \in InheritedKeys
            THEN Str(<<"function () { [native code] }">> \o [i \in 1..n |-> "1"])
            ELSE Num(n)]

\* decimal digits of a natural number
RECURSIVE DecimalText(_)
DecimalText(n) ==
    IF n < 10 THEN <<(<<"0", "1", "2", "3", "4", "5", "6", "7", "8", "9">>)[n + 1]>>
    ELSE DecimalText(n \div 10) \o DecimalText(n % 10)

\* the text of h hundredths with two decimals
FixedText(h) ==
    DecimalText(h \div 100) \o <<".">> \o DecimalText((h \div 10) % 10) \o DecimalText(h % 10)

\* (totalGradePoints / totalCredits).toFixed(2), totalGradePoints in tenths:
\* the nearest hundredth; where the quotient lies halfway between two
\* hundredths, the binary value of the quotient decides, and either may come
ToFixed2(tenths, credits) ==
    LET q == (10 * tenths) \div credits
        r == (10 * tenths) % credits
    IN  {FixedText(h) : h \in IF 2 * r < credits THEN {q}
                               ELSE IF 2 * r > credits THEN {q + 1}
                               ELSE {q, q + 1}}

RECURSIVE SumOver(_, _)
SumOver(S, f) ==
    IF S = {} THEN 0
    ELSE LET x == CHOOSE y \in S : TRUE IN f[x] + SumOver(S \ {x}, f)

\* the sub-fetches of the dashboard
SubFetches ==
    {"totalStudents", "totalCourses", "totalEnrollments", "allEnrollments",
     "courseEnrollments", "allCourses", "recentEnrollments"}

\* const { count } = await ...; count || 0: a failed fetch has count null
CountOrZero(failed, rows) == IF failed THEN 0 ELSE Cardinality(rows)

\* a fetch whose failure goes unnoticed
DataUnchecked(failed, rows) == rows

\* const { data } = await ...; (data || []): a failed fetch has data null
DataOrEmpty(failed, rows) == IF failed THEN {} ELSE rows

\* enrollments of the caller joined with courses!inner
EnrollmentsWithCourse(uid) ==
    {j \in [e : OwnedRows(enrollments, uid), c : OwnedRows(courses, uid)] :
        j.c.id = j.e.course_id}

\* e.grade && gradePoints[e.grade] !== undefined
Graded(j) ==
    /\ j.e.grade # Null
    /\ j.e.grade.s # <<>>
    /\ j.e.grade.s \in DOMAIN gradePoints \/ j.e.grade.s \in InheritedKeys

\* e.courses?.credits || 3
CreditsOf(j) == IF j.c.credits = 0 THEN 3 ELSE j.c.credits

\* const gpa = totalCredits > 0 ? (totalGradePoints / totalCredits).toFixed(2) : DASH;
\* gradePoints[e.grade] * credits is NaN when gradePoints[e.grade] is inherited
GpaTexts(rows) ==
    LET graded == {j \in rows : Graded(j)}
        totalCredits == SumOver(graded, [j \in graded |-> CreditsOf(j)])
        isNaN == \E j \in graded : j.e.grade.s \notin DOMAIN gradePoints
        totalGradePoints ==
            SumOver(graded, [j \in graded |->
                IF j.e.grade.s \in DOMAIN gradePoints
                THEN gradePoints[j.e.grade.s] * CreditsOf(j) ELSE 0])
    IN  IF totalCredits > 0
        THEN IF isNaN THEN {<<"N", "a", "N">>} ELSE ToFixed2(totalGradePoints, totalCredits)
        ELSE {DASH}

\* const statusCounts = { enrolled: 0, completed: 0, dropped: 0 };
\* if (statusCounts[e.status] !== undefined) statusCounts[e.status]++
\* (++ on an inherited member stores NaN under the key)
StatusCounts(rows) ==
    [key \in {ENROLLED, COMPLETED, DROPPED} \cup {j.e.status : j \in {j \in rows : j.e.status \in InheritedKeys}} |->
        IF key \in InheritedKeys THEN [k |-> "NaN"]
        ELSE Num(Cardinality({j \in rows : j.e.status = key}))]

\* enrolled_at DEFAULT NOW(): rows inserted by separate requests are in the
\* order of their ids; .order('enrolled_at', { ascending: false }).limit(5)
RecentActivity(uid, failed) ==
    LET joined == DataOrEmpty(failed,
                     {[id |-> j.e.id, e |-> j.e, s |-> j.s, c |-> j.c] :
                        j \in {j \in JoinedEnrollments(uid) :
                                 j.s.id = j.e.student_id /\ j.c.id = j.e.course_id}})
        ordered == OrderByIdDesc(joined)
        latest == SubSeq(ordered, 1, Min(5, Len(ordered)))
    IN  [i \in 1..Len(latest) |->
            [student |-> latest[i].s.name,
             course |-> latest[i].c.code \o <<" ">> \o DASH \o <<" ">> \o latest[i].c.name,
             grade |-> IF Falsy(latest[i].e.grade)
                       THEN <<"P", "e", "n", "d", "i", "n", "g">>
                       ELSE latest[i].e.grade.s,
             semester |-> latest[i].e.semester,
             date |-> latest[i].e.id]]

\* the responses GET /api/dashboard can give to user uid when the
\* sub-fetches in failed return an error
DashboardResponses(uid, failed) ==
    LET allEnrollments == DataOrEmpty("allEnrollments" \in failed, EnrollmentsWithCourse(uid))
        courseEnrollments == DataOrEmpty("courseEnrollments" \in failed, EnrollmentsWithCourse(uid))
        allCourses == DataOrEmpty("allCourses" \in failed, OwnedRows(courses, uid))
        graded == {j \in allEnrollments : Graded(j)}
    IN  {[status |-> 200,
          totalStudents |-> CountOrZero("totalStudents" \in failed, OwnedRows(students, uid)),
          totalCourses |-> CountOrZero("totalCourses" \in failed, OwnedRows(courses, uid)),
          totalEnrollments |-> CountOrZero("totalEnrollments" \in failed, OwnedRows(enrollments, uid)),
          gpa |-> g,
          gradeDistribution |-> Tally([j \in graded |-> j.e.grade.s]),
          coursePopularity |-> Tally([j \in courseEnrollments |-> j.c.code]),
          departmentCounts |-> Tally([c \in allCourses |-> c.department]),
          statusCounts |-> StatusCounts(allEnrollments),
          recentActivity |-> RecentActivity(uid, "recentEnrollments" \in failed)] :
         g \in GpaTexts(allEnrollments)}

\* GET /api/dashboard
GetDashboard(h, failed) ==
    LET auth == requireAuth(h)
    IN  /\ Begin
        /\ auth.ok
        /\ req' = [route |-> "GET /api/dashboard", header |-> h, user |-> auth.user,
                   failed |-> failed]
        /\ resp' \in DashboardResponses(auth.user, failed)
        /\ UNCHANGED store

(***************************************************************************)
(* The stores on which the dashboard is checked: n enrollments of the      *)
(* first tenant, each of one of the kinds below and each of its own        *)
(* student, and one enrollment of the second tenant.                       *)
(***************************************************************************)
DashKind(g, st, c) == [grade |-> g, status |-> st, course_id |-> c]

DashKinds ==
    {DashKind(Str(<<"A">>), COMPLETED, 1), DashKind(Str(<<"C">>), COMPLETED, 1),
     DashKind(Str(<<"A", "-">>), COMPLETED, 3), DashKind(Str(<<"B", "+">>), ENROLLED, 2),
     DashKind(Str(GRADE_F), COMPLETED, 1), DashKind(Null, ENROLLED, 1),
     DashKind(Null, DROPPED, 2), DashKind(Str(<<"Z">>), <<"x">>, 1),
     DashKind(Str(CONSTRUCTOR), ENROLLED, 1), DashKind(Str(<<"A">>), CONSTRUCTOR, 2)}

InitDash ==
    \E n \in 0..MaxDashRows :
        \E kinds \in [1..n -> DashKinds] :
          LET DashStudent(i, uid) ==
                  [id |-> i, name |-> IF uid = "u1" THEN ANN ELSE BOB, email |-> MAIL,
                   course |-> CS, user_id |-> uid]
              DashEnrollment(i, kind, uid) ==
                  [id |-> i, student_id |-> i, course_id |-> kind.course_id,
                   semester |-> FALL24, grade |-> kind.grade, status |-> kind.status,
                   user_id |-> uid]
          IN
            /\ students = {DashStudent(i, "u1") : i \in 1..n} \cup {DashStudent(n + 1, "u2")}
            /\ courses =
                 {[id |-> 1, code |-> CS101, name |-> INTRO, credits |-> 3,
                   department |-> CS, user_id |-> "u1"],
                  [id |-> 2, code |-> <<"E", "E", "2">>, name |-> INTRO, credits |-> 4,
                   department |-> EE, user_id |-> "u1"],
                  [id |-> 3, code |-> CS101, name |-> INTRO, credits |-> 1,
                   department |-> CS, user_id |-> "u1"],
                  [id |-> 4, code |-> CS101, name |-> INTRO, credits |-> 3,
                   department |-> CS, user_id |-> "u2"]}
            /\ enrollments = {DashEnrollment(i, kinds[i], "u1") : i \in 1..n}
                                \cup {DashEnrollment(n + 1, DashKind(Str(<<"A">>), COMPLETED, 4), "u2")}
            /\ seq = [students |-> n + 2, courses |-> 5, enrollments |-> n + 2]
            /\ req = [route |-> "none"]
            /\ resp = [status |-> 0]
            /\ before = NoTables
            /\ view = InitialView

NextDash ==
    \/ \E h \in Headers, failed \in {{}} \cup {{f} : f \in SubFetches} \cup {SubFetches} :
           GetDashboard(h, failed)
    \/ \E h \in Headers : Unauthenticated("GET /api/dashboard", h)
    \/ Deliver

SpecDash == InitDash /\ [][NextDash]_vars

(***************************************************************************)
(* Distinct-value listings and CSV exports.                                *)
(***************************************************************************)
\* a < b as Array.prototype.sort compares strings by default
RECURSIVE CodeUnitLess(_, _)
CodeUnitLess(a, b) ==
    LET \* characters in the order of their UTF-16 code units
        units ==
            <<" ", "0", "1", "2", "3", "4", "5", "6", "7", "8", "9", "@", "A", "B", "C",
              "D", "E", "F", "G", "H", "I", "J", "K", "L", "M", "N", "O", "P", "Q", "R",
              "S", "T", "U", "V", "W", "X", "Y", "Z", "a", "b", "c", "d", "e", "f", "g",
              "h", "i", "j", "k", "l", "m", "n", "o", "p", "q", "r", "s", "t", "u", "v",
              "w", "x", "y", "z">>
        unit(c) == CHOOSE i \in 1..Len(units) : units[i] = c
    IN  IF b = <<>> THEN FALSE
        ELSE IF a = <<>> THEN TRUE
        ELSE IF unit(Head(a)) # unit(Head(b)) THEN unit(Head(a)) < unit(Head(b))
        ELSE CodeUnitLess(Tail(a), Tail(b))

\* the values in descending order
RECURSIVE SortDescending(_)
SortDescending(S) ==
    IF S = {} THEN <<>>
    ELSE LET m == CHOOSE x \in S : \A o \in S \ {x} : CodeUnitLess(o, x)
         IN  <<m>> \o SortDescending(S \ {m})

\* [...new Set(values)].sort(): S holds each value once
RECURSIVE SortDefault(_)
SortDefault(S) ==
    IF S = {} THEN <<>>
    ELSE LET m == CHOOSE x \in S : \A o \in S \ {x} : CodeUnitLess(x, o)
         IN  <<m>> \o SortDefault(S \ {m})

\* GET /api/departments; failed: the store answers the select with an error
GetDepartments(h, failed) ==
    LET auth == requireAuth(h)
    IN  /\ Begin
        /\ auth.ok
        /\ req' = [route |-> "GET /api/departments", header |-> h, user |-> auth.user,
                   failed |-> failed]
        /\ resp' = [status |-> 200,
                    list |-> SortDefault({c.department :
                                c \in DataOrEmpty(failed, OwnedRows(courses, auth.user))})]
        /\ UNCHANGED store

\* GET /api/semesters
GetSemesters(h, failed) ==
    LET auth == requireAuth(h)
    IN  /\ Begin
        /\ auth.ok
        /\ req' = [route |-> "GET /api/semesters", header |-> h, user |-> auth.user,
                   failed |-> failed]
        /\ resp' = [status |-> 200,
                    list |-> SortDefault({e.semester :
                                e \in DataOrEmpty(failed, OwnedRows(enrollments, auth.user))})]
        /\ UNCHANGED store

\* [header, ...lines].join('\n')
RECURSIVE JoinLines(_)
JoinLines(lines) ==
    IF Len(lines) = 1 THEN lines[1]
    ELSE lines[1] \o <<"\n">> \o JoinLines(Tail(lines))

\* created_at / enrolled_at DEFAULT NOW(), as the text of a template
\* literal: the time of the insert, for which the row's id stands
TimeText(r) == <<"T">> \o DecimalText(r.id)

\* the csv of GET /api/export/students for the ordered rows
StudentsCsv(rows) ==
    LET q == <<"\"">>
        header == <<"I", "D", ",", "N", "a", "m", "e", ",", "E", "m", "a", "i", "l",
                    ",", "C", "o", "u", "r", "s", "e", ",", "C", "r", "e", "a", "t",
                    "e", "d", " ", "A", "t">>
        line(r) == DecimalText(r.id) \o <<",">> \o q \o r.name \o q \o <<",">>
                     \o q \o r.email \o q \o <<",">> \o q \o r.course \o q \o <<",">>
                     \o q \o TimeText(r) \o q
    IN  JoinLines(<<header>> \o [i \in 1..Len(rows) |-> line(rows[i])])

\* the csv of GET /api/export/enrollments for the ordered joined rows
EnrollmentsCsv(rows) ==
    LET q == <<"\"">>
        header ==
            <<"I", "D", ",", "S", "t", "u", "d", "e", "n", "t", " ", "N", "a", "m",
              "e", ",", "S", "t", "u", "d", "e", "n", "t", " ", "E", "m", "a", "i",
              "l", ",", "C", "o", "u", "r", "s", "e", " ", "C", "o", "d", "e", ",",
              "C", "o", "u", "r", "s", "e", " ", "N", "a", "m", "e", ",", "C", "r",
              "e", "d", "i", "t", "s", ",", "G", "r", "a", "d", "e", ",", "S", "e",
              "m", "e", "s", "t", "e", "r", ",", "S", "t", "a", "t", "u", "s", ",",
              "E", "n", "r", "o", "l", "l", "e", "d", " ", "A", "t">>
        line(r) == DecimalText(r.id) \o <<",">> \o q \o r.s.name \o q \o <<",">>
                     \o q \o r.s.email \o q \o <<",">> \o q \o r.c.code \o q \o <<",">>
                     \o q \o r.c.name \o q \o <<",">> \o DecimalText(r.c.credits) \o <<",">>
                     \o q \o (IF Falsy(r.e.grade) THEN <<>> ELSE r.e.grade.s) \o q \o <<",">>
                     \o q \o r.e.semester \o q \o <<",">> \o q \o r.e.status \o q \o <<",">>
                     \o q \o TimeText(r.e) \o q
    IN  JoinLines(<<header>> \o [i \in 1..Len(rows) |-> line(rows[i])])

\* the export that reports a failed read
ExportStudentsStrict(h, failed) ==
    LET auth == requireAuth(h)
    IN  /\ Begin
        /\ auth.ok
        /\ req' = [route |-> "GET /api/export/students", header |-> h, user |-> auth.user,
                   failed |-> failed]
        /\ resp' = IF failed THEN Err(500, "Failed to export students.")
                   ELSE [status |-> 200, type |-> "text/csv",
                         csv |-> StudentsCsv(OrderById(OwnedRows(students, auth.user)))]
        /\ UNCHANGED store

\* GET /api/export/students
ExportStudents(h, failed) ==
    LET auth == requireAuth(h)
    IN  /\ Begin
        /\ auth.ok
        /\ req' = [route |-> "GET /api/export/students", header |-> h, user |-> auth.user,
                   failed |-> failed]
        /\ resp' = [status |-> 200, type |-> "text/csv",
                    csv |-> StudentsCsv(OrderById(
                                DataOrEmpty(failed, OwnedRows(students, auth.user))))]
        /\ UNCHANGED store

\* GET /api/export/enrollments: students!inner, courses!inner
ExportEnrollments(h, failed) ==
    LET auth == requireAuth(h)
        joined == {[id |-> j.e.id, e |-> j.e, s |-> j.s, c |-> j.c] :
                     j \in {j \in JoinedEnrollments(auth.user) :
                              j.s.id = j.e.student_id /\ j.c.id = j.e.course_id}}
    IN  /\ Begin
        /\ auth.ok
        /\ req' = [route |-> "GET /api/export/enrollments", header |-> h,
                   user |-> auth.user, failed |-> failed]
        /\ resp' = [status |-> 200, type |-> "text/csv",
                    csv |-> EnrollmentsCsv(OrderById(DataOrEmpty(failed, joined)))]
        /\ UNCHANGED store

NextRead ==
    \/ \E h \in Headers, failed \in BOOLEAN : GetDepartments(h, failed)
    \/ \E h \in Headers, failed \in BOOLEAN : GetSemesters(h, failed)
    \/ \E h \in Headers, failed \in BOOLEAN : ExportStudents(h, failed)
    \/ \E h \in Headers, failed \in BOOLEAN : ExportEnrollments(h, failed)
    \/ \E route \in {"GET /api/departments", "GET /api/semesters",
                      "GET /api/export/students", "GET /api/export/enrollments"},
          h \in Headers : Unauthenticated(route, h)
    \/ Deliver

SpecRead == InitList /\ [][NextRead]_vars

(***************************************************************************)
(* Seed at its full size, clear, signup and login, with the answers of the *)
(* Record Store and of the Identity Provider that are errors.              *)
(***************************************************************************)
SeedStudentCount == 50
SeedCourseCount == 20

MaxSeedRuns == 2    \* the seeds that insert students, counted in rosters

\* the roster: 50 students; the names stand for the names of the source
FullRoster ==
    [i \in 1..SeedStudentCount |->
        [name |-> <<"s">> \o DecimalText(i), email |-> MAIL,
         course |-> IF i % 2 = 0 THEN CS ELSE EE]]

\* the catalogue: 20 courses, CS201, DS301 and EE101 (the 2nd, 10th and 12th)
\* of 4 credits and the others of 3
FullCatalogue ==
    [i \in 1..SeedCourseCount |->
        [code |-> <<"c">> \o DecimalText(i), name |-> INTRO,
         credits |-> IF i \in {2, 10, 12} THEN 4 ELSE 3,
         department |-> IF i <= 5 THEN CS ELSE EE]]

\* outcomes of the random choices of one seed: student si draws
\* numCourses = n[si] in 2..4 and takes the first n[si] courses of a shuffle,
\* here the catalogue rotated by si; semester, status and grade are drawn
\* from their lists.  Every student draws 2, every student draws 3, every
\* student draws 4, and the students draw 2, 3 and 4 in turn
FullPlans ==
    LET PlanOf(n) ==
            [si \in 1..SeedStudentCount |->
                [i \in 1..n[si] |->
                    LET status == SeedStatuses[((si + i) % Len(SeedStatuses)) + 1] IN
                    [course |-> ((si + i) % SeedCourseCount) + 1,
                     semester |-> SeedSemesters[((si + i) % Len(SeedSemesters)) + 1],
                     status |-> status,
                     grade |-> IF status = COMPLETED \/ si % 2 = 0
                               THEN SeedGrades[1] ELSE Null]]]
    IN  {PlanOf([si \in 1..SeedStudentCount |-> k]) : k \in 2..4}
            \cup {PlanOf([si \in 1..SeedStudentCount |-> 2 + (si % 3)])}

\* POST /api/seed
SeedFull(h, plan, failing, cause) ==
    /\ seq.students <= MaxSeedRuns * SeedStudentCount
    /\ SeedWith(h, plan, failing, cause, FullRoster, FullCatalogue)

AuthBodies ==
    [email : {Undef, Str(MAIL)},
     password : {Undef, Str(<<"p">>), Str(<<"s", "e", "c", "r", "e", "t">>)}]

\* POST /api/auth/signup and POST /api/auth/login; idpError is the message
\* of the error the Identity Provider answers with, "none" when it answers
\* with a session
AuthRequest(route, b, idpError) ==
    /\ Begin
    /\ req' = [route |-> route, body |-> b, idpError |-> idpError]
    /\ UNCHANGED store
    /\ resp' =
         IF Falsy(b.email) \/ Falsy(b.password)
         THEN Err(400, "Email and password are required.")
         ELSE IF route = "POST /api/auth/signup" /\ Len(b.password.s) < 6
         THEN Err(400, "Password must be at least 6 characters.")
         ELSE IF idpError # "none"
         THEN Err(400, idpError)
         ELSE IF route = "POST /api/auth/signup"
         THEN [status |-> 201, message |-> "Account created successfully!",
               session |-> [access_token |-> "t1"]]
         ELSE [status |-> 200, message |-> "Login successful!",
               session |-> [access_token |-> "t1"]]

\* the stores the seed is checked on: the first tenant has no students, as
\* many as the guard lets pass, or one more, and the second tenant has more
\* than the guard lets pass
InitSeed ==
    \E k \in {0, SeedGuard, SeedGuard + 1} :
        /\ students = {[id |-> i, name |-> ANN, email |-> MAIL, course |-> CS,
                        user_id |-> IF i <= k THEN "u1" ELSE "u2"] :
                          i \in 1..(k + SeedGuard + 1)}
        /\ courses = {}
        /\ enrollments = {}
        /\ seq = [students |-> k + SeedGuard + 2, courses |-> 1, enrollments |-> 1]
        /\ req = [route |-> "none"]
        /\ resp = [status |-> 0]
        /\ before = NoTables
        /\ view = InitialView

\* the requests of the first tenant and the requests that do not pass
\* requireAuth, with the answers of the Record Store and of the Identity
\* Provider that are errors
NextSeed ==
    \/ \E h \in Headers \ {<<"Bearer", "t2">>}, plan \in FullPlans,
          failing \in {"none", "count", "students", "courses", "enrollments"},
          cause \in {"fetch failed", "permission denied for table"} :
           SeedFull(h, plan, failing, cause)
    \/ \E h \in Headers \ {<<"Bearer", "t2">>},
          failed \in SUBSET {"enrollments", "courses", "students"} :
           ClearWith(h, failed)
    \/ \E route \in {"POST /api/auth/signup", "POST /api/auth/login"}, b \in AuthBodies,
          idpError \in {"none", "Invalid login credentials", "User already registered"} :
           AuthRequest(route, b, idpError)
    \/ \E route \in {"POST /api/seed", "POST /api/clear"},
          h \in Headers \ {<<"Bearer", "t2">>} :
           Unauthenticated(route, h)
    \/ Deliver

SpecSeed == InitSeed /\ [][NextSeed]_vars

(***************************************************************************)
(* An update and a delete of one student, interleaved.  The update handler *)
(* awaits the Record Store twice, for the existence check and for the      *)
(* write; a second request can be handled in between.  The update is the   *)
(* request in req, req.pc says how far it is, and req.meanwhile is the      *)
(* delete request that was handled between its check and its write.        *)
(***************************************************************************)
\* the answer of an update that checks whether its write matched a row
UpdateAnswerGuarded(data) ==
    IF data = {} THEN Err(404, "Student not found.")
    ELSE [status |-> 200, message |-> "Student updated successfully!",
          student |-> CHOOSE s \in data : TRUE]

\* if (error) ...; res.json({ message, student: data[0] }): data is the set
\* of rows the write matched, and JSON leaves an undefined student out
UpdateAnswer(data) ==
    IF data = {} THEN [status |-> 200, message |-> "Student updated successfully!"]
    ELSE [status |-> 200, message |-> "Student updated successfully!",
          student |-> CHOOSE s \in data : TRUE]

\* PUT /api/students/:id up to the answer of the existence check
PutStudentCheck(h, id, b) ==
    LET auth == requireAuth(h)
        route == "PUT /api/students/:id"
        early == StudentBodyInvalid(b) \/ FindStudent(id, auth.user) = {}
    IN  /\ Begin
        /\ auth.ok
        /\ req' = [route |-> route, header |-> h, user |-> auth.user, id |-> id, body |-> b,
                   pc |-> IF early THEN "done" ELSE "checked",
                   meanwhile |-> [status |-> 0]]
        /\ resp' = IF StudentBodyInvalid(b) THEN Err(400, "All fields are required.")
                   ELSE IF FindStudent(id, auth.user) = {} THEN Err(404, "Student not found.")
                   ELSE [status |-> 0]
        /\ UNCHANGED store

\* DELETE /api/students/:id, handled while the update awaits
DeleteStudentMeanwhile(h, id) ==
    LET auth == requireAuth(h)
        found == FindStudent(id, auth.user) # {}
    IN  /\ ~Idle
        /\ "pc" \in DOMAIN req
        /\ req.pc = "checked"
        /\ req.meanwhile.status = 0
        /\ auth.ok
        /\ req' = [req EXCEPT !.meanwhile =
                      [route |-> "DELETE /api/students/:id", user |-> auth.user, id |-> id,
                       status |-> IF found THEN 200 ELSE 404]]
        /\ students' = students \ FindStudent(id, auth.user)
        /\ enrollments' = IF found THEN CascadeSurvivors(enrollments, {id}, {})
                          ELSE enrollments
        /\ UNCHANGED <<courses, seq, resp, before, view>>

\* PUT /api/students/:id from the write on: .update(...).eq('id').eq('user_id').select()
PutStudentWrite ==
    LET data == {[old EXCEPT !.name = req.body.name.s, !.email = req.body.email.s,
                             !.course = req.body.course.s] :
                    old \in FindStudent(req.id, req.user)}
    IN  /\ ~Idle
        /\ "pc" \in DOMAIN req
        /\ req.pc = "checked"
        /\ req' = [req EXCEPT !.pc = "done"]
        /\ students' = (students \ FindStudent(req.id, req.user)) \cup data
        /\ resp' = UpdateAnswer(data)
        /\ UNCHANGED <<courses, enrollments, seq, before, view>>

NextRace ==
    \/ \E h \in Headers, b \in StudentBodies : PostStudents(h, b)
    \/ \E h \in Headers, id \in StudentIdParams, b \in StudentUpdates : PutStudentCheck(h, id, b)
    \/ \E h \in Headers, id \in StudentIdParams : DeleteStudentMeanwhile(h, id)
    \/ PutStudentWrite
    \/ resp.status # 0 /\ Deliver

SpecRace == Init /\ [][NextRace]_vars

(***************************************************************************)
(* The list view of the students in the browser (script.js).  view.page    *)
(* and view.totalPages are stuCurrentPage and stuTotalPages, view.search   *)
(* and view.course the values of the two inputs, view.shown what the page  *)
(* displays (the loading note, the empty state or the table), view.rows    *)
(* the ids of the rows of the displayed table, view.pager the enabled      *)
(* buttons of the displayed pagination, and view.pending says whether a    *)
(* call of loadStudents is due.  The requests of the view are handled by   *)
(* the server's handlers, one at a time.                                   *)
(***************************************************************************)
MaxViewDeletes == 2   \* the students deleted from the view

\* the page is opened with the token of a tenant and calls loadStudents
ViewOpen(h) ==
    /\ Idle
    /\ view.header = <<>>
    /\ view' = [view EXCEPT !.header = h, !.pending = "load"]
    /\ UNCHANGED <<store, req, resp, before>>

\* stuChangePage(delta), called by the buttons of the pagination
stuChangePage(delta) ==
    LET moved == view.page + delta
        low == IF moved < 1 THEN 1 ELSE moved
        high == IF low > view.totalPages THEN view.totalPages ELSE low
    IN  /\ Idle
        /\ view.pending = "none"
        /\ IF delta < 0 THEN view.pager.prev ELSE view.pager.next
        /\ view' = [view EXCEPT !.page = high, !.pending = "load"]
        /\ UNCHANGED <<store, req, resp, before>>

\* the handlers of the search input and of the course filter:
\* stuCurrentPage = 1; loadStudents()
stuFilters(search, course) ==
    /\ Idle
    /\ view.header # <<>>
    /\ view.pending = "none"
    /\ view' = [view EXCEPT !.search = search, !.course = course,
                            !.page = 1, !.pending = "load"]
    /\ UNCHANGED <<store, req, resp, before>>

\* the query of the url loadStudents builds:
\* /api/students?page=..., &search= and &course= when they are not empty
ViewQuery ==
    StudentQuery(IF view.search = <<>> THEN Undef ELSE Str(view.search),
                 IF view.course = <<>> THEN Undef ELSE Str(view.course),
                 Num(view.page), Undef)

\* loadStudents, up to the fetch
loadStudents ==
    /\ view.pending = "load"
    /\ GetStudents(view.header, ViewQuery)

\* deleteStudent(id), called by the button of a displayed row, up to the fetch
deleteStudent(id) ==
    /\ view.pending = "none"
    /\ view.shown = "table"
    /\ id \in view.rows
    /\ seq.students - 1 - Cardinality(students) < MaxViewDeletes
    /\ DeleteStudent(view.header, id)

\* the rest of loadStudents and of deleteStudent, from the response on
ViewReceive ==
    LET total == IF "totalPages" \in DOMAIN resp /\ resp.totalPages # 0
                 THEN resp.totalPages ELSE 1
        some == Len(resp.students) # 0
        loaded ==
            IF resp.status = 401 THEN InitialView
            ELSE IF "students" \notin DOMAIN resp
            THEN [view EXCEPT !.totalPages = total, !.pending = "none", !.failed = TRUE]
            ELSE [view EXCEPT
                    !.totalPages = total, !.pending = "none", !.failed = FALSE,
                    !.shown = IF some THEN "table" ELSE "empty",
                    !.rows = IF some THEN {resp.students[i].id : i \in 1..Len(resp.students)}
                             ELSE {},
                    !.pager = IF some /\ total > 1
                              THEN [prev |-> view.page > 1, next |-> view.page < total]
                              ELSE [prev |-> FALSE, next |-> FALSE]]
    IN  /\ ~Idle
        /\ view' = IF req.route = "GET /api/students" THEN loaded
                   ELSE [view EXCEPT !.pending =
                            IF resp.status >= 200 /\ resp.status <= 299 THEN "load" ELSE "none"]
        /\ req' = [route |-> "none"]
        /\ resp' = [status |-> 0]
        /\ before' = NoTables
        /\ UNCHANGED store

NextView ==
    \/ \E h \in {<<"Bearer", "t1">>, <<"Bearer", "t2">>} : ViewOpen(h)
    \/ \E delta \in {-1, 1} : stuChangePage(delta)
    \/ \E search \in {<<>>, <<"B">>, <<"m">>}, course \in {<<>>, CS} : stuFilters(search, course)
    \/ loadStudents
    \/ \E id \in 1..MaxListRows : deleteStudent(id)
    \/ ViewReceive

SpecView == InitList /\ [][NextView]_vars

(***************************************************************************)
(* Properties of the mutating requests.  While a request is being handled  *)
(* (~Idle), req is the request, resp the response it produced, before the  *)
(* tables as the request found them and Tables the tables as it left them. *)
(***************************************************************************)
Handled(route) == ~Idle /\ req.route = route

Authenticated == ~Idle /\ "user" \in DOMAIN req

\* the rows of the tables t that user u owns
OwnedBy(t, u) ==
    [students |-> {s \in t.students : s.user_id = u},
     courses |-> {c \in t.courses : c.user_id = u},
     enrollments |-> {e \in t.enrollments : e.user_id = u}]

\* C2: whatever create, update, delete, seed or clear request a tenant
\* makes, the rows of every other tenant are after the request what they
\* were before it.
C2_OtherTenantsUnchanged ==
    Authenticated =>
        \A u \in Users \ {req.user} : OwnedBy(Tables, u) = OwnedBy(before, u)

\* C3: a protected request with no Authorization header, with a header that
\* is not a Bearer header, or with a token the provider rejects is answered
\* 401 and leaves the tables (and their sequences) as they were; a request
\* that got past the middleware carries a user the provider resolved.
HeaderRejected(h) == h = <<>> \/ h[1] # "Bearer" \/ GetUser(h[2]).error

C3_UnauthenticatedRejected ==
    ~Idle =>
        IF HeaderRejected(req.header)
        THEN /\ resp.status = 401
             /\ "user" \notin DOMAIN req
             /\ Tables = before
        ELSE /\ "user" \in DOMAIN req
             /\ req.user = GetUser(req.header[2]).user
             /\ req.user \in Users

C3_Witness ==
    /\ Handled("DELETE /api/students/:id")
    /\ req.header = <<"Bearer", "expired">>
    /\ resp = Err(401, "Invalid or expired token.")
    /\ before.students # {}

\* the table a route with an :id parameter addresses
TableOf(route) ==
    CASE route \in {"PUT /api/students/:id", "DELETE /api/students/:id"} -> "students"
      [] route \in {"PUT /api/courses/:id", "DELETE /api/courses/:id"} -> "courses"
      [] route \in {"PUT /api/enrollments/:id", "DELETE /api/enrollments/:id"} -> "enrollments"
      [] OTHER -> "none"

ById == Authenticated /\ TableOf(req.route) # "none"

\* the request names a row that exists but belongs to another tenant
ForeignId ==
    /\ ById
    /\ \E r \in before[TableOf(req.route)] : r.id = req.id /\ r.user_id # req.user

\* the request names an id that no row of the table holds
MissingId ==
    /\ ById
    /\ \A r \in before[TableOf(req.route)] : r.id # req.id

\* what a request for an id with no row behind it is answered, as a function
\* of the request alone
BodyRejected ==
    CASE req.route = "PUT /api/students/:id" -> StudentBodyInvalid(req.body)
      [] req.route = "PUT /api/courses/:id" -> CourseBodyInvalid(req.body)
      [] OTHER -> FALSE

NotFoundResponse ==
    CASE TableOf(req.route) = "students" -> Err(404, "Student not found.")
      [] TableOf(req.route) = "courses" -> Err(404, "Course not found.")
      [] TableOf(req.route) = "enrollments" -> Err(404, "Enrollment not found.")

RequiredFieldMissing ==
    CASE Handled("POST /api/students") /\ Authenticated ->
             \E f \in {"name", "email", "course"} : req.body[f] \in {Undef, Str(<<>>)}
      [] Handled("POST /api/courses") /\ Authenticated ->
             \E f \in {"code", "name", "credits", "department"} : req.body[f] \in {Undef, Str(<<>>)}
      [] Handled("POST /api/enrollments") /\ Authenticated ->
             \E f \in {"student_id", "course_id", "semester"} : req.body[f] \in {Undef, Str(<<>>)}
      [] OTHER -> FALSE

C5_CreateValidation ==
    RequiredFieldMissing => resp.status = 400 /\ Tables = before

C5_Witness ==
    /\ RequiredFieldMissing
    /\ Handled("POST /api/students")
    /\ req.body.email = Str(<<>>)
    /\ resp = Err(400, "All fields are required.")

SameTriple(e, sid, cid, sem) ==
    e.student_id = sid /\ e.course_id = cid /\ e.semester = sem

\* a well-formed create request for a triple that a stored enrollment holds
DuplicateCreate ==
    /\ Handled("POST /api/enrollments")
    /\ Authenticated
    /\ ~EnrollmentBodyInvalid(req.body)
    /\ \E e \in before.enrollments :
          SameTriple(e, req.body.student_id.n, req.body.course_id.n, req.body.semester.s)

\* C6: creating an enrollment for a triple that is already stored is
\* answered with the 'already enrolled' error, not the generic failure, and
\* the stored enrollment (with every other row) keeps its field values.
C6_DuplicateEnrollment ==
    DuplicateCreate =>
        /\ resp = Err(400, "Student is already enrolled in this course for this semester.")
        /\ Tables = before

C6_Witness ==
    /\ DuplicateCreate
    /\ resp.status = 400
    /\ \E e \in enrollments :
          /\ e.user_id = req.user
          /\ SameTriple(e, req.body.student_id.n, req.body.course_id.n, req.body.semester.s)

\* an update of the caller's own enrollment to a semester in which another
\* enrollment already holds the same student and course
UpdateCollision ==
    /\ Handled("PUT /api/enrollments/:id")
    /\ Authenticated
    /\ ~Falsy(req.body.semester)
    /\ \E old \in before.enrollments :
          /\ old.id = req.id
          /\ old.user_id = req.user
          /\ \E o \in before.enrollments :
                /\ o.id # old.id
                /\ SameTriple(o, old.student_id, old.course_id, req.body.semester.s)

\* C7: no two stored enrollments hold the same (student, course, semester)
\* triple, whatever creates, semester updates, seeds and deletes came
\* before; an update whose new semester collides with a stored triple fails
\* and leaves the tables as they were.
C7_UniqueTriple ==
    /\ \A e1, e2 \in enrollments :
          SameTriple(e1, e2.student_id, e2.course_id, e2.semester) => e1 = e2
    /\ UpdateCollision => resp.status >= 400 /\ Tables = before

C7_Witness ==
    /\ UpdateCollision
    /\ resp = Err(500, "Failed to update enrollment.")
    /\ Cardinality(enrollments) = 2

\* a successful delete of a student or course that enrollments referenced
DeletedReferenced ==
    /\ Authenticated
    /\ resp.status = 200
    /\ \/ /\ req.route = "DELETE /api/students/:id"
          /\ \E e \in before.enrollments : e.student_id = req.id
       \/ /\ req.route = "DELETE /api/courses/:id"
          /\ \E e \in before.enrollments : e.course_id = req.id

\* C8: every stored enrollment references a stored student and a stored
\* course; in particular, after a successful delete of a student or of a
\* course no enrollment references the deleted row.
C8_ReferencesExist ==
    /\ \A e \in enrollments :
          /\ \E s \in students : s.id = e.student_id
          /\ \E c \in courses : c.id = e.course_id
    /\ Handled("DELETE /api/students/:id") /\ Authenticated /\ resp.status = 200 =>
          \A e \in enrollments : e.student_id # req.id
    /\ Handled("DELETE /api/courses/:id") /\ Authenticated /\ resp.status = 200 =>
          \A e \in enrollments : e.course_id # req.id

C8_Witness ==
    /\ DeletedReferenced
    /\ req.route = "DELETE /api/courses/:id"
    /\ before.enrollments # {}
    /\ enrollments = {}

(***************************************************************************)
(* Properties of the listings.                                             *)
(***************************************************************************)
Listing == Authenticated /\ req.route \in ListRoutes

ListKey ==
    CASE req.route = "GET /api/students" -> "students"
      [] req.route = "GET /api/courses" -> "courses"
      [] req.route = "GET /api/enrollments" -> "enrollments"

\* the rows a successful listing returned
ListedRows == resp[ListKey]

\* a listing with offset and range, not the all=true one
Paged == Listing /\ (req.route = "GET /api/enrollments" \/ req.query.all # Str(TRUE_TEXT))

\* the responses the handler of the request's route can give to query q
ResponsesTo(q) ==
    CASE req.route = "GET /api/students" -> StudentsResponses(req.user, q)
      [] req.route = "GET /api/courses" -> CoursesResponses(req.user, q)
      [] req.route = "GET /api/enrollments" -> EnrollmentsResponses(req.user, q)

\* N: the number of rows that match the request's filters
MatchCount ==
    CASE req.route = "GET /api/students" -> Cardinality(MatchingStudents(req.user, req.query))
      [] req.route = "GET /api/courses" -> Cardinality(MatchingCourses(req.user, req.query))
      [] req.route = "GET /api/enrollments" -> Cardinality(MatchingEnrollments(req.user, req.query))

\* C1: whatever the store holds and whatever search, filter, page and
\* all=true a listing is asked with, every row it returns is a row of the
\* listed table that the calling tenant owns.
C1_ListsOwnRowsOnly ==
    Listing /\ resp.status = 200 =>
        \A i \in 1..Len(ListedRows) :
            \E r \in Tables[ListKey] : r.id = ListedRows[i].id /\ r.user_id = req.user

C1_Witness ==
    /\ Handled("GET /api/enrollments")
    /\ Authenticated
    /\ req.user = "u2"
    /\ ~Falsy(req.query.grade)
    /\ resp.status = 200
    /\ Len(ListedRows) > 0
    /\ \E e \in enrollments : e.user_id = "u1" /\ e.grade = req.query.grade

\* a paged listing asked for page 0 or a negative page
BelowFirstPage == Paged /\ req.query.page # Undef /\ req.query.page.n < 1

\* C9: a listing asked for a page below 1 answers with what the same
\* listing asked for page 1 answers: the same rows, the same page number.
C9_PageBelowOneIsPageOne ==
    BelowFirstPage => resp \in ResponsesTo([req.query EXCEPT !.page = Num(1)])

\* a paged listing asked for a page after the last one
BeyondLastPage == Paged /\ PageNumber(req.query) > CeilDiv(MatchCount, PageSize)

\* C10: a listing with N matching rows asked for a page p > ceil(N/10)
\* succeeds, returns no rows and reports total = N.
C10_PageBeyondLastIsEmpty ==
    BeyondLastPage =>
        /\ resp.status = 200
        /\ ListedRows = <<>>
        /\ resp.total = MatchCount

\* the rows that match the request's filters, as the listing shows them
MatchingRows ==
    CASE req.route = "GET /api/students" -> MatchingStudents(req.user, req.query)
      [] req.route = "GET /api/courses" -> MatchingCourses(req.user, req.query)
      [] req.route = "GET /api/enrollments" ->
             {Flatten(j) : j \in MatchingEnrollments(req.user, req.query)}

\* a paged listing asked for one of its pages 1..ceil(N/10)
ValidPage ==
    /\ Paged
    /\ PageNumber(req.query) >= 1
    /\ (PageNumber(req.query) - 1) * PageSize < MatchCount

\* C11: a listing with N matching rows reports totalPages = ceil(N/10), and
\* its page p, 1 <= p <= totalPages, is exactly the rows at positions
\* (p-1)*10+1 .. min(p*10, N) of the matching rows taken newest first (the
\* row at position k is the matching row with k-1 matching rows of greater
\* id), so that the pages together hold every matching row exactly once.
C11_PagesPartitionMatches ==
    /\ Paged /\ resp.status = 200 =>
          /\ resp.total = MatchCount
          /\ resp.totalPages * PageSize >= MatchCount
          /\ (resp.totalPages - 1) * PageSize < MatchCount \/ (MatchCount = 0 /\ resp.totalPages = 0)
    /\ ValidPage =>
          LET first == (PageNumber(req.query) - 1) * PageSize
          IN  /\ resp.status = 200
              /\ Len(ListedRows) = Min(first + PageSize, MatchCount) - first
              /\ \A i \in 1..Len(ListedRows) :
                    /\ ListedRows[i] \in MatchingRows
                    /\ Cardinality({m \in MatchingRows : m.id > ListedRows[i].id}) = first + i - 1

C11_Witness ==
    /\ ValidPage
    /\ Handled("GET /api/enrollments")
    /\ PageNumber(req.query) = 2
    /\ MatchCount = 12
    /\ Len(ListedRows) = 2
    /\ ListedRows[2].id = 1

(***************************************************************************)
(* Properties of the dashboard.                                            *)
(***************************************************************************)
Dashboard == Handled("GET /api/dashboard") /\ Authenticated

\* the sub-fetch of the enrollments with their grades was answered
GradesFetched == Dashboard /\ "allEnrollments" \notin req.failed

\* the letter grades of the scale
LetterGrades ==
    {<<"A", "+">>, <<"A">>, <<"A", "-">>, <<"B", "+">>, <<"B">>, <<"B", "-">>,
     <<"C", "+">>, <<"C">>, <<"C", "-">>, <<"D", "+">>, <<"D">>, <<"D", "-">>, <<"F">>}

\* the caller's enrollments whose grade is present and a letter grade
RecognizedRows ==
    {e \in enrollments : /\ e.user_id = req.user
                         /\ e.grade # Null
                         /\ e.grade.s \in LetterGrades}

CreditHours(e) == (CHOOSE c \in courses : c.id = e.course_id).credits

WeightedPoints == SumOver(RecognizedRows, [e \in RecognizedRows |-> gradePoints[e.grade.s] * CreditHours(e)])

WeightedCredits == SumOver(RecognizedRows, [e \in RecognizedRows |-> CreditHours(e)])

Abs(n) == IF n < 0 THEN 0 - n ELSE n

\* text is the two-decimal text of a hundredth nearest to tenths / (10 * credits)
IsRounded(text, tenths, credits) ==
    \E h \in 0..400 : /\ text = FixedText(h)
                      /\ 2 * Abs(10 * tenths - h * credits) <= credits

\* C12: the GPA on the dashboard is the sum of grade points times credit
\* hours over the sum of credit hours, over the caller's enrollments with a
\* present, recognized grade, rounded to two decimals (an A and a C of 3
\* credits each give 3.00).
C12_GpaIsWeightedMean ==
    (GradesFetched /\ RecognizedRows # {}) =>
        /\ resp.status = 200
        /\ IsRounded(resp.gpa, WeightedPoints, WeightedCredits)

\* C13: the GPA is the 'no data' marker exactly when no enrollment of the
\* caller has a present, recognized grade, and a number, possibly 0.00,
\* otherwise.
C13_GpaMarkerIffNoGrades ==
    GradesFetched =>
        /\ resp.gpa = DASH <=> RecognizedRows = {}
        /\ RecognizedRows # {} => \E h \in 0..400 : resp.gpa = FixedText(h)

\* C14: the counts of the grade distribution add up to the number of the
\* caller's enrollments with a present, recognized grade, and the
\* distribution has no key for an absent or unrecognized grade.
C14_DistributionCountsRecognized ==
    GradesFetched =>
        /\ DOMAIN resp.gradeDistribution \subseteq LetterGrades
        /\ \A g \in DOMAIN resp.gradeDistribution :
              resp.gradeDistribution[g] =
                  Num(Cardinality({e \in RecognizedRows : e.grade.s = g}))
        /\ \A e \in RecognizedRows : e.grade.s \in DOMAIN resp.gradeDistribution

\* C15: the status counts have exactly the keys enrolled, completed and
\* dropped; an enrollment of any other status changes none of them and
\* causes no error.
C15_StatusCountsThreeKeys ==
    GradesFetched =>
        /\ resp.status = 200
        /\ DOMAIN resp.statusCounts = {ENROLLED, COMPLETED, DROPPED}
        /\ \A st \in DOMAIN resp.statusCounts :
              resp.statusCounts[st] =
                  Num(Cardinality({e \in enrollments : e.user_id = req.user /\ e.status = st}))

\* the answer to a dashboard request whose sub-fetch f found nothing
EmptyPart(f) ==
    CASE f = "totalStudents" -> resp.totalStudents = 0
      [] f = "totalCourses" -> resp.totalCourses = 0
      [] f = "totalEnrollments" -> resp.totalEnrollments = 0
      [] f = "allEnrollments" ->
            /\ resp.gpa = DASH
            /\ DOMAIN resp.gradeDistribution = {}
            /\ resp.statusCounts = [st \in {ENROLLED, COMPLETED, DROPPED} |-> Num(0)]
      [] f = "courseEnrollments" -> DOMAIN resp.coursePopularity = {}
      [] f = "allCourses" -> DOMAIN resp.departmentCounts = {}
      [] f = "recentEnrollments" -> resp.recentActivity = <<>>

\* sub-fetch f has no row to return for the caller
NothingFor(f) ==
    CASE f = "totalStudents" -> OwnedRows(students, req.user) = {}
      [] f = "allCourses" \/ f = "totalCourses" -> OwnedRows(courses, req.user) = {}
      [] OTHER -> OwnedRows(enrollments, req.user) = {}

\* C16: the dashboard never fails on empty or failed sub-fetches: each is
\* treated as empty and gives zero counts, the 'no data' GPA, empty
\* distributions and empty recent activity.
C16_DashboardSurvivesFailedFetches ==
    Dashboard =>
        /\ resp.status = 200
        /\ \A f \in SubFetches : (f \in req.failed \/ NothingFor(f)) => EmptyPart(f)

C16_Witness ==
    /\ Dashboard
    /\ req.failed = SubFetches
    /\ Cardinality(OwnedRows(enrollments, req.user)) = 3
    /\ resp.status = 200
    /\ resp.gpa = DASH
    /\ resp.totalEnrollments = 0

(***************************************************************************)
(* Properties of the updates.                                              *)
(***************************************************************************)
Update ==
    /\ Authenticated
    /\ req.route \in {"PUT /api/students/:id", "PUT /api/courses/:id", "PUT /api/enrollments/:id"}

\* the row of the caller that the request names, before and after
TargetBefore == {r \in before[TableOf(req.route)] : r.id = req.id /\ r.user_id = req.user}

TargetAfter == {r \in Tables[TableOf(req.route)] : r.id = req.id /\ r.user_id = req.user}

\* the fields the body supplies
Supplied == {f \in DOMAIN req.body : req.body[f] # Undef}

\* the column value a supplied field asks for; an empty grade asks for none
Asked(f) ==
    LET v == req.body[f]
    IN  IF TableOf(req.route) = "enrollments" /\ f = "grade"
        THEN (IF Falsy(v) THEN Null ELSE v)
        ELSE IF v.k = "number" THEN v.n ELSE v.s

\* an update of an own row that supplies some fields and omits others
PartialUpdate ==
    /\ Update
    /\ TargetBefore # {}
    /\ Supplied # {}
    /\ Supplied # DOMAIN req.body
    /\ ~UpdateCollision

\* C17: an update that supplies only some of the fields succeeds for
\* students, courses and enrollments alike, and changes exactly the supplied
\* fields; every omitted field keeps its value.
C17_PartialUpdateChangesSupplied ==
    PartialUpdate =>
        /\ resp.status = 200
        /\ \A old \in TargetBefore : \E new \in TargetAfter :
              \A f \in DOMAIN req.body :
                 new[f] = IF f \in Supplied THEN Asked(f) ELSE old[f]

\* an update of an own enrollment
EnrollmentUpdate == Handled("PUT /api/enrollments/:id") /\ Authenticated /\ TargetBefore # {}

\* C18: an enrollment update with an explicit empty grade ("" or null)
\* clears the stored grade; one that omits grade leaves the stored grade as
\* it was.
C18_EmptyGradeClearsOmittedKeeps ==
    EnrollmentUpdate =>
        \A old \in TargetBefore :
            /\ req.body.grade \in {Null, Str(<<>>)} =>
                  /\ resp.status = 200
                  /\ \A new \in TargetAfter : new.grade = Null
                  /\ TargetAfter # {}
            /\ req.body.grade = Undef =>
                  /\ TargetAfter # {}
                  /\ \A new \in TargetAfter : new.grade = old.grade

C18_Witness ==
    /\ EnrollmentUpdate
    /\ req.body.grade = Str(<<>>)
    /\ \E old \in TargetBefore : old.grade = Str(GRADE_A)
    /\ \E new \in TargetAfter : new.grade = Null
    /\ resp.status = 200

(***************************************************************************)
(* Properties of the exports and the distinct-value listings.              *)
(***************************************************************************)
\* an export whose read the store answered
Export ==
    /\ Authenticated
    /\ req.route \in {"GET /api/export/students", "GET /api/export/enrollments"}
    /\ ~req.failed

\* the parts of text between the occurrences of sep
RECURSIVE SplitAt(_, _)
SplitAt(text, sep) ==
    IF \A i \in 1..Len(text) : text[i] # sep THEN <<text>>
    ELSE LET i == CHOOSE k \in 1..Len(text) :
                     text[k] = sep /\ \A l \in 1..(k - 1) : text[l] # sep
         IN  <<SubSeq(text, 1, i - 1)>> \o SplitAt(SubSeq(text, i + 1, Len(text)), sep)

RECURSIVE CommaJoined(_)
CommaJoined(fields) ==
    IF Len(fields) = 1 THEN fields[1]
    ELSE fields[1] \o <<",">> \o CommaJoined(Tail(fields))

InQuotes(text) == <<"\"">> \o text \o <<"\"">>

\* the column names of the header of each export
StudentColumns ==
    <<<<"I", "D">>,
      <<"N", "a", "m", "e">>,
      <<"E", "m", "a", "i", "l">>,
      <<"C", "o", "u", "r", "s", "e">>,
      <<"C", "r", "e", "a", "t", "e", "d", " ", "A", "t">>>>

EnrollmentColumns ==
    <<<<"I", "D">>,
      <<"S", "t", "u", "d", "e", "n", "t", " ", "N", "a", "m", "e">>,
      <<"S", "t", "u", "d", "e", "n", "t", " ", "E", "m", "a", "i", "l">>,
      <<"C", "o", "u", "r", "s", "e", " ", "C", "o", "d", "e">>,
      <<"C", "o", "u", "r", "s", "e", " ", "N", "a", "m", "e">>,
      <<"C", "r", "e", "d", "i", "t", "s">>,
      <<"G", "r", "a", "d", "e">>,
      <<"S", "e", "m", "e", "s", "t", "e", "r">>,
      <<"S", "t", "a", "t", "u", "s">>,
      <<"E", "n", "r", "o", "l", "l", "e", "d", " ", "A", "t">>>>

ExportColumns ==
    IF req.route = "GET /api/export/students" THEN StudentColumns ELSE EnrollmentColumns

\* the records an export is about: the caller's students; the caller's
\* enrollments with their student and course
ExportRecords ==
    IF req.route = "GET /api/export/students"
    THEN {s \in students : s.user_id = req.user}
    ELSE {e \in enrollments :
            /\ e.user_id = req.user
            /\ \E st \in students : st.id = e.student_id /\ st.user_id = req.user
            /\ \E c \in courses : c.id = e.course_id /\ c.user_id = req.user}

\* the fields of a record, column by column
ExportFields(r) ==
    IF req.route = "GET /api/export/students"
    THEN <<DecimalText(r.id), InQuotes(r.name), InQuotes(r.email), InQuotes(r.course),
           InQuotes(TimeText(r))>>
    ELSE LET st == CHOOSE x \in students : x.id = r.student_id
             c == CHOOSE x \in courses : x.id = r.course_id
         IN  <<DecimalText(r.id), InQuotes(st.name), InQuotes(st.email), InQuotes(c.code),
               InQuotes(c.name), DecimalText(c.credits),
               IF r.grade = Null THEN InQuotes(<<>>) ELSE InQuotes(r.grade.s),
               InQuotes(r.semester), InQuotes(r.status), InQuotes(TimeText(r))>>

\* C19: an export is the literal header line and then exactly one line per
\* record, in ascending order of id; every line has as many fields as the
\* header, in the header's order; credit hours are unquoted, text fields
\* are in double quotes verbatim, and an absent grade is an empty quoted
\* string.
C19_ExportIsHeaderAndRecordLines ==
    Export =>
        LET lines == SplitAt(resp.csv, "\n")
        IN  /\ resp.status = 200
            /\ lines[1] = CommaJoined(ExportColumns)
            /\ Len(lines) = 1 + Cardinality(ExportRecords)
            /\ \A r \in ExportRecords :
                  LET position == 1 + Cardinality({o \in ExportRecords : o.id < r.id})
                  IN  /\ Len(ExportFields(r)) = Len(ExportColumns)
                      /\ lines[1 + position] = CommaJoined(ExportFields(r))

C19_Witness ==
    /\ Export
    /\ req.route = "GET /api/export/enrollments"
    /\ Cardinality(ExportRecords) >= 3
    /\ \E r \in ExportRecords : r.grade = Null
    /\ Cardinality({e \in enrollments : e.user_id = req.user}) > Cardinality(ExportRecords)
    /\ Len(SplitAt(resp.csv, "\n")) = 1 + Cardinality(ExportRecords)

\* a distinct-value listing whose read the store answered
DistinctListing ==
    /\ Authenticated
    /\ req.route \in {"GET /api/departments", "GET /api/semesters"}
    /\ ~req.failed

\* the values of the listed field in the caller's rows
SourceValues ==
    IF req.route = "GET /api/departments"
    THEN {c.department : c \in {c \in courses : c.user_id = req.user}}
    ELSE {e.semester : e \in {e \in enrollments : e.user_id = req.user}}

\* C20: the department and the semester listing return, for the calling
\* tenant, each value present in the source exactly once, in ascending
\* order, however often the value occurs in the source.
C20_DistinctValuesAscending ==
    DistinctListing =>
        /\ resp.status = 200
        /\ {resp.list[i] : i \in 1..Len(resp.list)} = SourceValues
        /\ \A i, j \in 1..Len(resp.list) : i < j => CodeUnitLess(resp.list[i], resp.list[j])

C20_Witness ==
    /\ DistinctListing
    /\ req.route = "GET /api/departments"
    /\ resp.list = <<CS, EE>>
    /\ Cardinality({c \in courses : c.user_id = req.user}) >= 4
    /\ \E c \in courses : c.user_id # req.user

\* an export whose read the store answered with an error
FailedExport ==
    /\ Authenticated
    /\ req.route \in {"GET /api/export/students", "GET /api/export/enrollments"}
    /\ req.failed

\* C24: when the read behind an export fails, the export still answers with
\* a successful text/csv response that holds the header line and nothing
\* else; it never answers with an error status or an error body.
C24_FailedExportIsHeaderOnly ==
    FailedExport =>
        /\ resp.status = 200
        /\ "error" \notin DOMAIN resp
        /\ resp.type = "text/csv"
        /\ resp.csv = CommaJoined(ExportColumns)

C24_Witness ==
    /\ FailedExport
    /\ req.route = "GET /api/export/students"
    /\ Cardinality({st \in students : st.user_id = req.user}) >= 3
    /\ resp.status = 200
    /\ SplitAt(resp.csv, "\n") = <<CommaJoined(StudentColumns)>>

(***************************************************************************)
(* Properties of the references and of seed and clear.                     *)
(***************************************************************************)
\* a create request that names a student or a course of another tenant
CreateAcrossTenants ==
    /\ Handled("POST /api/enrollments")
    /\ Authenticated
    /\ ~EnrollmentBodyInvalid(req.body)
    /\ \/ \E st \in before.students :
              st.id = req.body.student_id.n /\ st.user_id # req.user
       \/ \E c \in before.courses :
              c.id = req.body.course_id.n /\ c.user_id # req.user

\* C28: every stored enrollment references a student and a course that the
\* enrollment's own tenant owns; a create request that names another
\* tenant's student or course stores no enrollment.
C28_ReferencesWithinTenant ==
    /\ \A e \in enrollments :
          /\ \E st \in students : st.id = e.student_id /\ st.user_id = e.user_id
          /\ \E c \in courses : c.id = e.course_id /\ c.user_id = e.user_id
    /\ CreateAcrossTenants => enrollments = before.enrollments

\* the enrollments a successful seed request inserted
SeededEnrollments ==
    IF Handled("POST /api/seed") /\ Authenticated /\ resp.status = 200
    THEN enrollments \ before.enrollments
    ELSE {}

\* C29: every enrollment a seed generates with status 'completed' has a
\* grade, whatever the random draws; only an enrollment with status
\* 'enrolled' may be without a grade, and none has status 'dropped'.
C29_SeededCompletedAreGraded ==
    \A e \in SeededEnrollments :
        /\ e.status = COMPLETED => e.grade # Null
        /\ e.grade = Null => e.status = ENROLLED
        /\ e.status # DROPPED
        /\ e.user_id = req.user

C29_Witness ==
    /\ \E e \in SeededEnrollments : e.status = COMPLETED /\ e.grade = Str(GRADE_A)
    /\ resp.counts.enrollments = Cardinality(SeededEnrollments)

\* a seed request of a tenant that has more than SeedGuard students
SeedAboveGuard ==
    /\ Handled("POST /api/seed")
    /\ Authenticated
    /\ Cardinality(OwnedBy(before, req.user).students) > SeedGuard

\* C21: a seed request by a tenant that already has more than 10 students
\* is refused with an error and inserts nothing; a successful seed leaves
\* the tenant with more than 10 students, so that the seed request that
\* follows it is refused.
C21_SeedAboveGuardRefused ==
    /\ SeedAboveGuard =>
          /\ resp.status = 400
          /\ "error" \in DOMAIN resp
          /\ Tables = before
    /\ (Handled("POST /api/seed") /\ Authenticated /\ resp.status = 200) =>
          Cardinality(OwnedBy(Tables, req.user).students) > SeedGuard

\* the step of a seed request that the Record Store answered with an error
SeedStepFailed ==
    /\ Handled("POST /api/seed")
    /\ Authenticated
    /\ req.failing \in {"students", "courses", "enrollments"}
    /\ resp.status = 500

\* a signup or login request that reached the Identity Provider and was
\* answered with an error
IdpFailed ==
    /\ ~Idle
    /\ req.route \in {"POST /api/auth/signup", "POST /api/auth/login"}
    /\ req.idpError # "none"
    /\ ~Falsy(req.body.email)
    /\ ~Falsy(req.body.password)
    /\ req.route = "POST /api/auth/signup" => Len(req.body.password.s) >= 6

\* C22: whenever the Record Store or the Identity Provider answers with an
\* error, the response carries an error message that is not the
\* collaborator's error text and does not end with it; for signup, login
\* and seed alike.
C22_FailureMessagesAreGeneric ==
    LET stems == {"", "Failed to seed students: ", "Failed to seed courses: ",
                  "Failed to seed enrollments: "}
    IN  /\ SeedStepFailed =>
              /\ "error" \in DOMAIN resp
              /\ \A stem \in stems : resp.error # stem \o req.cause
        /\ IdpFailed =>
              /\ "error" \in DOMAIN resp
              /\ \A stem \in stems : resp.error # stem \o req.idpError

\* C25: a successful seed inserts 50 students, 20 courses and 120 or more
\* enrollments of the calling tenant, whatever the random choices made while
\* the enrollments are generated.
C25_SeedInsertsAtLeast120 ==
    (Handled("POST /api/seed") /\ Authenticated /\ resp.status = 200) =>
        /\ Cardinality(OwnedBy(Tables, req.user).students \ before.students) = 50
        /\ Cardinality(OwnedBy(Tables, req.user).courses \ before.courses) = 20
        /\ Cardinality(OwnedBy(Tables, req.user).enrollments \ before.enrollments) >= 120

\* C26: whenever a clear request answers with success, the calling tenant
\* has no students, no courses and no enrollments left.
C26_ClearedMeansEmpty ==
    (Handled("POST /api/clear") /\ Authenticated /\ resp.status = 200) =>
        /\ OwnedBy(Tables, req.user).students = {}
        /\ OwnedBy(Tables, req.user).courses = {}
        /\ OwnedBy(Tables, req.user).enrollments = {}

\* a seed request whose insert of the courses or of the enrollments the
\* Record Store answered with an error
SeedFailedMidway ==
    /\ Handled("POST /api/seed")
    /\ Authenticated
    /\ req.failing \in {"courses", "enrollments"}
    /\ resp.status # 400

\* a seed request of a tenant that has the students of a seed that failed
\* midway and no enrollments
SeedRetried ==
    /\ SeedAboveGuard
    /\ Cardinality(OwnedBy(before, req.user).students) >= SeedStudentCount
    /\ OwnedBy(before, req.user).enrollments = {}

\* C27: seeding is not atomic.  When the insert of the courses or of the
\* enrollments fails, the request answers with an error while the 50
\* students (and the 20 courses, when the enrollments failed) stay stored
\* and no enrollment is; and a seed request of a tenant that has such
\* students left is refused and inserts nothing.
C27_FailedSeedKeepsEarlierInserts ==
    /\ SeedFailedMidway =>
          /\ resp.status = 500
          /\ "error" \in DOMAIN resp
          /\ Cardinality(OwnedBy(Tables, req.user).students \ before.students) = 50
          /\ Cardinality(OwnedBy(Tables, req.user).courses \ before.courses)
                = IF req.failing = "enrollments" THEN 20 ELSE 0
          /\ enrollments = before.enrollments
          /\ Cardinality(OwnedBy(Tables, req.user).students) > SeedGuard
    /\ SeedRetried => resp.status = 400 /\ Tables = before

(***************************************************************************)
(* Properties of the interleaved update and delete.                        *)
(***************************************************************************)
\* the update's existence check found the student, and a delete request
\* removed the student before the update's write
DeletedBetweenCheckAndWrite ==
    /\ Handled("PUT /api/students/:id")
    /\ "pc" \in DOMAIN req
    /\ req.pc = "done"
    /\ req.meanwhile.status = 200
    /\ req.meanwhile.id = req.id

\* C23: when a delete request removes the student between the existence
\* check and the write of an update request, the update still answers with
\* success, not with not-found, although the student is gone and no student
\* was changed.
C23_UpdateAnswersSuccessAfterDelete ==
    DeletedBetweenCheckAndWrite =>
        /\ resp.status = 200
        /\ resp.message = "Student updated successfully!"
        /\ \E s \in before.students : s.id = req.id /\ s.user_id = req.user
        /\ \A s \in students : s.id # req.id
        /\ students \subseteq before.students

C23_Witness ==
    /\ DeletedBetweenCheckAndWrite
    /\ req.meanwhile.user = req.user
    /\ resp.status = 200
    /\ "student" \notin DOMAIN resp
    /\ students = {}

(***************************************************************************)
(* Properties of the list view.                                            *)
(***************************************************************************)
\* the page is open, its last call of loadStudents has completed and no
\* other is due
ViewLoaded ==
    /\ Idle
    /\ view.header # <<>>
    /\ view.pending = "none"
    /\ view.shown # "loading"
    /\ ~view.failed

\* C30: after page changes, search and filter changes and deletions, each
\* followed by a completed reload, the current page of the list view lies
\* between 1 and the number of pages, and the empty state is displayed only
\* when no student matches the search and the filter.
C30_CurrentPageWithinPages ==
    ViewLoaded =>
        /\ 1 <= view.page
        /\ view.page <= view.totalPages
        /\ view.shown = "empty" =>
              MatchingStudents(requireAuth(view.header).user, ViewQuery) = {}

====
